---------------------------- MODULE Spec2Model ----------------------------
(***************************************************************************)
(* A model of the adk-kubernetes gateway: the OAuth callback code store    *)
(* (in-memory and Redis variants), the session registration path, the      *)
(* polling authorization handshake, the auth interceptor, the agent        *)
(* caller's run loop and the SSE framing of its output.                    *)
(*                                                                         *)
(* The specifications share the variables:                                 *)
(*   SpecStore    the code store used by two clients at once               *)
(*   SpecSession  session registration and the entry of a run              *)
(*   SpecWait     wait_for_user_authentication called on its own           *)
(*   Spec         one conversation, from the SSE endpoint to the engine    *)
(*   SpecCallback handle_callback against a store that is also consumed    *)
(*   SpecLoop     the run loop over events of every shape                  *)
(*   SpecShared   two conversations of one process in a handshake          *)
(*   SpecKey      the persistent credential key, computed and decoded      *)
(*   SpecHash     the canonical credential key in worker processes         *)
(*   SpecHooks    the gmail tool hooks                                     *)
(*   SpecDetect   the run loop's test for auth events                      *)
(*   SpecRestart  one conversation with auth events in the engine's runs   *)
(*   SpecMalformed one conversation with credential requests that fail     *)
(*   SpecRead     the code store read with get_code                        *)
(*   SpecWaitLive the wait as it is scheduled, for its termination         *)
(*   SpecBinding  tool calls of two sessions, hook by hook                 *)
(***************************************************************************)
EXTENDS Integers, Sequences, FiniteSets, TLC

(***************************************************************************)
(* Values.  Python's None is the string None; a value is truthy when it is *)
(* neither None nor the empty string ("if code:", "if not state").         *)
(***************************************************************************)
None == "<None>"

Truthy(x) == x /= None /\ x /= ""

\* Bounds of the model.
MaxCallbacks == 2
MaxConsumes == 3

\* The states and codes the provider's redirects can carry.
States == {"s1", "s2"}
Codes == {"c1", "c2"}
Clients == {1, 2}

VARIABLES
    variant,      \* "memory" | "redis": dispatch_oauth_handler's choice
    auth_codes,   \* the code store: state -> code, None when absent
    stored,       \* history: accepted callbacks per state
    spent,        \* history: a code of the state was handed out and no
                  \* callback has stored one since
    cl,           \* per client: its position in a store call
    results,      \* history: what consume_code calls returned, in order
    sessions,     \* the session service's rows
    lastReg,      \* history: the last registration, its request and answer
    auth_config,  \* AuthConfigHandler.auth_config, the active negotiation
    poll_interval,\* AuthConfigHandler.poll_interval, in ticks
    timeout,      \* wait_for_user_authentication's timeout, in ticks
    elapsed,      \* wait_for_user_authentication's elapsed
    polled,       \* the code a Redis GET of the wait read, before its DELETE
    polls,        \* history: consume_code calls of the current wait
    waitResult,   \* how the wait ended: None while it has not
    pc,           \* the conversation task's position
    req,          \* the AgentRequest being served
    new_message,  \* call_agent_async's next message for the engine
    credentials_needed,
    first_call,
    function_call_id, \* intercept_auth_event's function_call_id
    exc,          \* the exception travelling up the generators, if any
    existed,      \* history: what check_session_exists answered
    produced,     \* history: the events the engine produced, in order
    runs,         \* history: the message of each engine run, in order
    yielded,      \* history: the strings call_agent_async yielded
    intercepted,  \* history: the events intercept_auth_event yielded
    frames,       \* history: the SSE frames generate_stream yielded
    outcome,      \* how the consumer's iteration of the stream ended
    lastCb,       \* history: the last redirect handle_callback served
    reads,        \* history: what get_code calls returned, in order
    prevAccount,  \* history: each session with the account of its last tool call
    tasks,        \* per conversation task: its position in a handshake
    kin,          \* the arguments of a persistent-key computation
    kout,         \* its persistent key and what decoding the key gave
    hashfn,       \* per worker process: its salted hash of str
    calls,        \* history: canonical-key computations and their results
    redis_on,     \* the gmail hooks' redis_client is not None
    durable,      \* the credential store: persistent key -> JSON text
    tstate,       \* per session: tool_context.state under the two keys
    last_user,    \* GmailToolBeforeCallback._last_connection_input_user_id
    hookLog       \* history: the last hook call

storeVars == <<variant, auth_codes, stored, spent>>
clientVars == <<cl, results>>
sessionVars == <<sessions, lastReg>>
waitVars == <<auth_config, poll_interval, timeout, elapsed, polled, polls, waitResult>>
convRest == <<req, new_message, credentials_needed, first_call,
              function_call_id, exc, existed>>
convVars == <<pc, convRest>>
histVars == <<produced, runs, yielded, intercepted, frames, outcome>>
logVars == <<lastCb, reads, prevAccount>>
taskVars == <<tasks>>
keyVars == <<kin, kout>>
hashVars == <<hashfn, calls>>
hookVars == <<redis_on, durable, tstate, last_user, hookLog>>

-----------------------------------------------------------------------------
(***************************************************************************)
(* The OAuth callback store.                                               *)
(***************************************************************************)

\* dispatch_oauth_handler: in-memory unless redis.url is configured.
Variants == {"memory", "redis"}

EmptyStore == [s \in States |-> None]

\* The query parameters of a redirect: each of code, state, error is absent
\* (None), empty or a value.
QueryParams ==
    [code : Codes \cup {None, ""},
     state : States \cup {None, ""},
     error : {None, "", "access_denied"}]

\* The status code handle_callback answers with.
CallbackStatus(q) ==
    IF Truthy(q.error) THEN 400
    ELSE IF ~Truthy(q.code) \/ ~Truthy(q.state) THEN 400
    ELSE 200

\* The heading of the page handle_callback answers with.
CallbackHeading(q) ==
    IF Truthy(q.error) THEN "Authentication Failed"
    ELSE IF ~Truthy(q.code) \/ ~Truthy(q.state) THEN "Invalid Request"
    ELSE "Authentication Successful!"

\* A faulty store, against which C15 is tested: the accepted code replaces
\* the whole mapping.
StoreAfterCallback_Alone(q) ==
    IF CallbackStatus(q) = 200
        THEN [EmptyStore EXCEPT ![q.state] = q.code]
        ELSE auth_codes

\* handle_callback, both variants: the store after the request.
StoreAfterCallback(q) ==
    IF CallbackStatus(q) = 200
        THEN [auth_codes EXCEPT ![q.state] = q.code]
        ELSE auth_codes

TotalStored == stored["s1"] + stored["s2"]

HandleCallback(q) ==
    /\ TotalStored < MaxCallbacks
    /\ auth_codes' = StoreAfterCallback(q)
    /\ stored' = IF CallbackStatus(q) = 200
                    THEN [stored EXCEPT ![q.state] = @ + 1]
                    ELSE stored
    /\ spent' = IF CallbackStatus(q) = 200
                   THEN [spent EXCEPT ![q.state] = FALSE]
                   ELSE spent
    /\ UNCHANGED variant

NoCb == [q |-> [code |-> None, state |-> None, error |-> None],
         status |-> 0, heading |-> None,
         before |-> EmptyStore, after |-> EmptyStore]

\* handle_callback as a request served: the query, the response's status
\* code, and the store before and after it.
ServeCallback(q) ==
    /\ HandleCallback(q)
    /\ lastCb' = [q |-> q, status |-> CallbackStatus(q),
                  heading |-> CallbackHeading(q),
                  before |-> auth_codes, after |-> auth_codes']

InitLog == lastCb = NoCb /\ reads = <<>> /\ prevAccount = {}

\* The Redis entry's expiry (set(state, code, ex=ttl)): the server drops it.
ExpireCode(s) ==
    /\ variant = "redis"
    /\ auth_codes[s] /= None
    /\ auth_codes' = [auth_codes EXCEPT ![s] = None]
    /\ UNCHANGED <<variant, stored, spent>>

\* get_code: a read.
GetCode(s) == auth_codes[s]

\* Bound: the get_code calls of a run.
MaxReads == 2

\* A faulty read, against which C30 is tested: the entry read is removed.
ReadCode_Removes(s) ==
    /\ Len(reads) < MaxReads
    /\ reads' = Append(reads, [state |-> s, code |-> GetCode(s)])
    /\ auth_codes' = [auth_codes EXCEPT ![s] = None]
    /\ UNCHANGED <<variant, stored, spent>>

\* A get_code(s) call: dict.get, or one Redis GET.
ReadCode(s) ==
    /\ Len(reads) < MaxReads
    /\ reads' = Append(reads, [state |-> s, code |-> GetCode(s)])
    /\ UNCHANGED storeVars

\* What a consume_code that reads the store now returns: the in-memory pop's
\* value, the Redis GET's value when truthy.
ConsumeValue(s) ==
    IF variant = "memory" THEN auth_codes[s]
    ELSE IF Truthy(auth_codes[s]) THEN auth_codes[s] ELSE None

\* A faulty removal, against which C3 is tested: the entry stays.
StoreWithout_Kept(s) == auth_codes

\* A faulty removal, against which C39 is tested: the whole store is
\* emptied.
StoreWithout_All(s) == [o \in DOMAIN auth_codes |-> None]

\* The store after pop(state, None) / after delete(state).
StoreWithout(s) == [auth_codes EXCEPT ![s] = None]

\* A consume_code call returned code for state s: the history it leaves.
SpentAfter(s, code) == IF code /= None THEN [spent EXCEPT ![s] = TRUE] ELSE spent


-----------------------------------------------------------------------------
(***************************************************************************)
(* Clients of the store: callers of consume_code running at the same time  *)
(* (handshakes in different worker processes share the Redis store).  The  *)
(* in-memory consume_code is one dict.pop; the Redis consume_code is a GET *)
(* followed, when a code was found, by a DELETE: two round trips.          *)
(***************************************************************************)
IdleClient == [pc |-> "idle", st |-> None, code |-> None]

Returned(c, s, code) == Append(results, [client |-> c, state |-> s, code |-> code])

\* InMemoryOAuthCallbackHandler.consume_code
MemoryConsume(c, s) ==
    /\ variant = "memory"
    /\ cl[c].pc = "idle"
    /\ Len(results) < MaxConsumes
    /\ results' = Returned(c, s, ConsumeValue(s))
    /\ auth_codes' = StoreWithout(s)
    /\ spent' = SpentAfter(s, ConsumeValue(s))
    /\ UNCHANGED <<variant, stored, cl>>

\* RedisOAuthCallbackHandler.consume_code, first round trip: GET.
RedisGet(c, s) ==
    /\ variant = "redis"
    /\ cl[c].pc = "idle"
    /\ Len(results) < MaxConsumes
    /\ IF ConsumeValue(s) /= None
          THEN /\ cl' = [cl EXCEPT ![c] = [pc |-> "got", st |-> s,
                                           code |-> ConsumeValue(s)]]
               /\ UNCHANGED results
          ELSE /\ results' = Returned(c, s, None)
               /\ UNCHANGED cl
    /\ UNCHANGED storeVars

\* RedisOAuthCallbackHandler.consume_code, second round trip: DELETE, then
\* the code that GET read is returned.
RedisDelete(c) ==
    /\ variant = "redis"
    /\ cl[c].pc = "got"
    /\ auth_codes' = StoreWithout(cl[c].st)
    /\ spent' = SpentAfter(cl[c].st, cl[c].code)
    /\ results' = Returned(c, cl[c].st, cl[c].code)
    /\ cl' = [cl EXCEPT ![c] = IdleClient]
    /\ UNCHANGED <<variant, stored>>

InitStore ==
    /\ variant \in Variants
    /\ auth_codes = EmptyStore
    /\ stored = [s \in States |-> 0]
    /\ spent = [s \in States |-> FALSE]

InitClients ==
    /\ cl = [c \in Clients |-> IdleClient]
    /\ results = <<>>


-----------------------------------------------------------------------------
(***************************************************************************)
(* Sessions.  The session service is the ADK's; its rows are identified by *)
(* the session id ("The unique identifier of the session"), and its        *)
(* create_session answers a second row of the same id with the database's  *)
(* primary-key IntegrityError.                                             *)
(***************************************************************************)
SessionIds == {"s1", "s2"}
Users == {"u1", "u2"}

\* AgentCallerGoogle.app_name as main.py configures it.
AppName == "weather-time-app"
Apps == {AppName, "a1"}

\* The Session value object of the creation endpoint.
SessionValues == [id : SessionIds, user_id : Users, app_name : Apps]

IdExists(rows, id) == \E r \in rows : r.id = id

\* session_service.create_session: the database's answer to the insert.
DbInsert(rows, session) ==
    IF IdExists(rows, session.id)
        THEN [error |-> "IntegrityError", orig |-> "sessions_pkey", rows |-> rows]
        ELSE [error |-> None, orig |-> None, rows |-> rows \cup {session}]

\* A faulty translation, against which C10 is tested: the primary-key
\* violation is not recognised and the IntegrityError is re-raised.
CreateSessionError_Reraised(db) ==
    IF db.error = None THEN None ELSE "IntegrityError"

\* SessionRepositoryGoogleImpl.create_session: the exception it leaves with,
\* None when it returns the created session.
CreateSessionError(db) ==
    IF db.error = None THEN None
    ELSE IF db.orig \in {"sessions_pkey", "duplicate key"}
        THEN "SessionAlreadyExistsError"
        ELSE "IntegrityError"

\* The answer of POST /create_session: the created session, or what the
\* SessionAlreadyExistsError handler of create_app builds from the exception
\* (whose session_id is the id create_session raised it with).
CreateSessionResponse(session, error) ==
    IF error = None
        THEN [status |-> 200, session_id |-> session.id, body |-> {session}]
    ELSE IF error = "SessionAlreadyExistsError"
        THEN [status |-> 409, session_id |-> session.id, body |-> {}]
        ELSE [status |-> 500, session_id |-> None, body |-> {}]

NoReg == [request |-> {}, before |-> {}, response |-> {}]

\* POST /create_session -> CreateSessionAPIImpl.create_session ->
\* RegisterSessionUseCase.register_session -> create_session.
RegisterSession(session) ==
    LET db == DbInsert(sessions, session)
    IN  /\ sessions' = db.rows
        /\ lastReg' = [request |-> {session},
                       before |-> sessions,
                       response |-> {CreateSessionResponse(session,
                                         CreateSessionError(db))}]

\* A faulty lookup, against which C1 is tested: the user is not compared.
GetSession_AnyUser(app, sid, uid) ==
    {r \in sessions : r.id = sid /\ r.app_name = app}

\* session_service.get_session(app_name, session_id, user_id)
GetSession(app, sid, uid) ==
    {r \in sessions : r.id = sid /\ r.user_id = uid /\ r.app_name = app}

InitSessions ==
    /\ sessions = {}
    /\ lastReg = NoReg

-----------------------------------------------------------------------------
(***************************************************************************)
(* Events.  An event is its content parts and its long-running tool ids;   *)
(* a part carries a text, a function call and a function response, each    *)
(* possibly absent.  The negotiation (AuthConfig) is reduced to the fields *)
(* of exchanged_auth_credential.oauth2 the gateway reads or writes.        *)
(***************************************************************************)
CredentialRequest == "adk_request_credential"

\* AuthConfigHandler.redirect_uri as configured.
RedirectUri == "http://cb"

\* kind: "missing" (no authConfig argument), "dict", "other" (not a mapping)
NoCfg == [kind |-> "missing", auth_uri |-> None, state |-> None,
          auth_response_uri |-> None, redirect_uri |-> None]

Negotiation(uri, state) ==
    [kind |-> "dict", auth_uri |-> uri, state |-> state,
     auth_response_uri |-> None, redirect_uri |-> None]

NotAMapping == [NoCfg EXCEPT !.kind = "other"]

NoCall == [name |-> None, id |-> None, args |-> [authConfig |-> NoCfg]]
NoResp == [name |-> None, id |-> None, response |-> NoCfg]

TextPart(t) == [text |-> t, fc |-> NoCall, fr |-> NoResp]
CallPart(name, id, cfg) ==
    [text |-> None, fc |-> [name |-> name, id |-> id, args |-> [authConfig |-> cfg]],
     fr |-> NoResp]
ResponsePart(name, id, cfg) ==
    [text |-> None, fc |-> NoCall,
     fr |-> [name |-> name, id |-> id, response |-> cfg]]

\* has_parts is FALSE for a content whose parts are None (Content.parts is
\* optional), which the code tells from an empty list in some places.
Event(parts, lr) == [parts |-> parts, lr |-> lr, has_parts |-> TRUE]

\* An event with a content whose parts are None.
NoPartsEvent == [parts |-> <<>>, lr |-> {}, has_parts |-> FALSE]

\* " ".join(part.text for part in parts if part.text is not None)
RECURSIVE JoinTexts(_)
JoinTexts(parts) ==
    IF parts = <<>> THEN ""
    ELSE LET rest == JoinTexts(Tail(parts))
             restHasText == \E i \in 1..Len(Tail(parts)) : Tail(parts)[i].text /= None
         IN  IF Head(parts).text = None THEN rest
             ELSE IF restHasText THEN Head(parts).text \o " " \o rest
             ELSE Head(parts).text

\* default_event_parser, for an event with content parts.
default_event_parser(event) == JoinTexts(event.parts)

\* default_event_filter: TRUE suppresses the event.
default_event_filter(event) ==
    ~ \E i \in 1..Len(event.parts) : event.parts[i].text /= None

\* default_event_filter iterates event.content.parts without testing it: the
\* error it raises for an event it cannot iterate, None when it answers.
FilterError(event) ==
    IF ~event.has_parts THEN "TypeError: 'NoneType' object is not iterable"
    ELSE None

\* A faulty condition, against which C22 is tested: the long-running tool
\* ids are not consulted.
IsAuthRequestPart_AnyId(part, lr) == part.fc.name = CredentialRequest

\* The condition of get_auth_request_function_call's loop for one part.
IsAuthRequestPart(part, lr) ==
    /\ part.fc.name = CredentialRequest
    /\ lr /= {}
    /\ part.fc.id \in lr

\* AuthInterceptor.get_auth_request_function_call: the first such call,
\* NoCall when there is none.
get_auth_request_function_call(event) ==
    LET hits == {i \in 1..Len(event.parts) : IsAuthRequestPart(event.parts[i], event.lr)}
    IN  IF hits = {} THEN NoCall
        ELSE event.parts[CHOOSE i \in hits : \A j \in hits : i <= j].fc

\* A faulty test, against which C24 is tested: no event is taken for an
\* auth event, so the run goes on past it.
is_auth_event_Never(event) == FALSE

\* AuthInterceptor.is_auth_event
is_auth_event(event) == get_auth_request_function_call(event) /= NoCall

\* AgentCallerGoogle._is_event_auth_response
IsEventAuthResponse(event) ==
    event.has_parts /\ \E i \in 1..Len(event.parts) : event.parts[i].fr.name = CredentialRequest

\* A faulty extraction, against which C28 is tested: the shape of the
\* authConfig argument is not looked at.
InterceptError_AnyShape(event) ==
    LET call == get_auth_request_function_call(event)
    IN  IF ~is_auth_event(event) THEN "ValueError: no auth request"
        ELSE IF ~Truthy(call.id) THEN "ValueError: no function call id"
        ELSE None

\* intercept_auth_event up to set_auth_config: the error it raises, None
\* when it goes on to load the negotiation.
InterceptError(event) ==
    LET call == get_auth_request_function_call(event)
    IN  IF ~is_auth_event(event) THEN "ValueError: no auth request"
        ELSE IF ~Truthy(call.id) THEN "ValueError: no function call id"
        ELSE IF call.args.authConfig.kind = "missing" THEN "ValueError: no auth config"
        ELSE IF call.args.authConfig.kind /= "dict" THEN "ValueError: authConfig is not a dict"
        ELSE None

\* A faulty test, against which C29 is tested: the state is not required.
AskError_StateOptional(cfg) ==
    IF ~Truthy(cfg.auth_uri) THEN "ValueError: Auth URI not found"
    ELSE None

\* ask_user_for_authentication: the error it raises on the loaded
\* negotiation, None when it builds the event.
AskError(cfg) ==
    IF ~Truthy(cfg.auth_uri) THEN "ValueError: Auth URI not found"
    ELSE IF ~Truthy(cfg.state) THEN "ValueError: State not found"
    ELSE None

AuthRequiredText(cfg) ==
    "AUTH_REQUIRED: " \o cfg.auth_uri \o "&redirect_uri=" \o RedirectUri

\* ask_user_for_authentication's event.
ask_user_for_authentication(cfg) == Event(<<TextPart(AuthRequiredText(cfg))>>, {})

\* A faulty resumption event, against which C5 is tested: the id of the
\* original function call is lost.
create_event_without_id(id, cfg) ==
    Event(<<ResponsePart(CredentialRequest, None, cfg)>>, {})

\* create_event_with_code_credentials
create_event_with_code_credentials(id, cfg) ==
    Event(<<ResponsePart(CredentialRequest, id, cfg)>>, {})

\* types.Content(parts=[types.Part(text=message)])
UserContent(message) == <<TextPart(message)>>


-----------------------------------------------------------------------------
(***************************************************************************)
(* Python floats.  elapsed, poll_interval and a fractional timeout are     *)
(* IEEE 754 doubles: 53 significant bits, sums rounded to nearest, ties to *)
(* even.  A number is the set of the positions of its one bits, position k *)
(* weighing 2^(k - 60); position -1 stands for "some lower bit is set"     *)
(* and occurs only in the expansion of a quotient, before rounding.        *)
(***************************************************************************)
MaxOf(S) == CHOOSE x \in S : \A y \in S : y <= x

\* The bits of the natural number n, its lowest at position k.
RECURSIVE NatBits(_, _)
NatBits(n, k) ==
    IF n = 0 THEN {}
    ELSE (IF n % 2 = 1 THEN {k} ELSE {}) \cup NatBits(n \div 2, k + 1)

\* The bits of rem / d < 1 from position k down, by long division.
RECURSIVE FracBits(_, _, _)
FracBits(rem, d, k) ==
    IF k < 0 THEN (IF rem /= 0 THEN {-1} ELSE {})
    ELSE IF 2 * rem >= d
        THEN {k} \cup FracBits(2 * rem - d, d, k - 1)
        ELSE FracBits(2 * rem, d, k - 1)

\* S + 2^k
RECURSIVE AddBit(_, _)
AddBit(S, k) == IF k \in S THEN AddBit(S \ {k}, k + 1) ELSE S \cup {k}

\* a + b, exactly
RECURSIVE Sum(_, _)
Sum(a, b) ==
    IF b = {} THEN a
    ELSE LET k == MaxOf(b)
             s == AddBit(a, k)
         IN  IF s = {} THEN {} ELSE Sum(s, b \ {k})

\* Rounding to 53 significant bits, to nearest, ties to even.
RoundToDouble(S) ==
    IF S = {} THEN {}
    ELSE LET cut == MaxOf(S) - 52
             kept == {b \in S : b >= cut}
             rest == {b \in S : b < cut}
             up == (cut - 1) \in rest /\ (rest /= {cut - 1} \/ cut \in kept)
         IN  IF up THEN AddBit(kept, cut) ELSE kept

\* The double a literal n/d denotes (0.1 is 1/10, 300 is 300/1).
FloatOf(n, d) == RoundToDouble(NatBits(n \div d, 60) \cup FracBits(n % d, d, 59))

\* elapsed += poll_interval
FloatAdd(a, b) == RoundToDouble(Sum(a, b))

\* a < b
FloatLess(a, b) ==
    LET diff == (a \ b) \cup (b \ a)
    IN  diff /= {} /\ MaxOf(diff) \in b

\* A number as written and as the double it denotes.
Lit(n, d) == [n |-> n, d |-> d, val |-> FloatOf(n, d)]
-----------------------------------------------------------------------------
(***************************************************************************)
(* AuthConfigHandler.wait_for_user_authentication.  poll_interval and      *)
(* timeout are numbers as the caller wrote them, with the doubles they     *)
(* denote; elapsed is the double the loop accumulates, the rounded sum of  *)
(* the intervals slept.  The task is at "wait"                             *)
(* before the call, "poll" at the loop test, "delete" between the Redis    *)
(* GET and DELETE of a poll, "sleep" in asyncio.sleep, "waited" after.     *)
(***************************************************************************)
\* Bounds: the timeouts and poll intervals drawn, in tenths of a second,
\* and the polls of a wait.
MaxTimeout == 10
MaxPoll == 2
MaxPolls == 12

\* AuthConfigHandler.poll_interval's default, in seconds.
DefaultPollInterval == 2

\* The timeout of the interceptor's wait, in seconds (the code's default of
\* 300, scaled down).
DefaultTimeout == 4

Timeouts == {Lit(k, 10) : k \in 0..MaxTimeout}
PollIntervals == {Lit(k, 10) : k \in 0..MaxPoll}

NoResult == [kind |-> None, state |-> None]

\* f"{redirect_uri}?code={code}&state={state}"
AuthResponseUri(code, state) == RedirectUri \o "?code=" \o code \o "&state=" \o state

\* A faulty completion, against which C27 is tested: the redirect URI is
\* left out of the negotiation.
Completed_WithoutRedirectUri(cfg, code) ==
    [cfg EXCEPT !.auth_response_uri = AuthResponseUri(code, cfg.state)]

\* The negotiation after the code arrived.
Completed(cfg, code) ==
    [cfg EXCEPT !.auth_response_uri = AuthResponseUri(code, cfg.state),
                !.redirect_uri = RedirectUri]

\* A faulty entry, against which C26 is tested: the state is not looked at
\* and the polling begins.
WaitStart_NoStateCheck ==
    /\ pc = "wait"
    /\ elapsed' = {}
    /\ pc' = "poll"
    /\ UNCHANGED waitResult
    /\ UNCHANGED <<auth_config, poll_interval, timeout, polled, polls>>
    /\ UNCHANGED storeVars

\* state = ...oauth2.state; if not state: raise ValueError; elapsed = 0.0
WaitStart ==
    /\ pc = "wait"
    /\ IF ~Truthy(auth_config.state)
          THEN /\ waitResult' = [kind |-> "ValueError", state |-> auth_config.state]
               /\ pc' = "waited"
               /\ UNCHANGED elapsed
          ELSE /\ elapsed' = {}
               /\ pc' = "poll"
               /\ UNCHANGED waitResult
    /\ UNCHANGED <<auth_config, poll_interval, timeout, polled, polls>>
    /\ UNCHANGED storeVars

\* A faulty loop test, against which C6 is tested: one poll more.
LoopTest_Inclusive == ~FloatLess(timeout.val, elapsed)

\* while elapsed < timeout
LoopTest == FloatLess(elapsed, timeout.val)

\* A faulty return, against which C34 is tested: the code is consumed and
\* the wait times out all the same.
WaitReturn_TimesOut(code) ==
    /\ auth_config' = Completed(auth_config, code)
    /\ waitResult' = [kind |-> "TimeoutError", state |-> auth_config.state]
    /\ pc' = "waited"

\* The wait returns the negotiation completed with code.
WaitReturn(code) ==
    /\ auth_config' = Completed(auth_config, code)
    /\ waitResult' = [kind |-> "returned", state |-> auth_config.state]
    /\ pc' = "waited"

\* while elapsed < timeout: code = consume_code(state); if code: ... return
\* and, when the loop ends, raise TimeoutError.  The in-memory consume_code
\* is one step; of the Redis one this is the GET.
Poll ==
    /\ pc = "poll"
    /\ IF LoopTest
          THEN /\ polls < MaxPolls
               /\ polls' = polls + 1
               /\ LET code == ConsumeValue(auth_config.state)
                  IN  IF variant = "memory"
                         THEN /\ auth_codes' = StoreWithout(auth_config.state)
                              /\ spent' = SpentAfter(auth_config.state, code)
                              /\ UNCHANGED polled
                              /\ IF Truthy(code)
                                    THEN WaitReturn(code)
                                    ELSE /\ pc' = "sleep"
                                         /\ UNCHANGED <<auth_config, waitResult>>
                         ELSE /\ UNCHANGED <<auth_codes, spent, auth_config, waitResult>>
                              /\ IF code /= None
                                    THEN polled' = code /\ pc' = "delete"
                                    ELSE UNCHANGED polled /\ pc' = "sleep"
          ELSE /\ waitResult' = [kind |-> "TimeoutError", state |-> auth_config.state]
               /\ pc' = "waited"
               /\ UNCHANGED <<auth_codes, spent, auth_config, polled, polls>>
    /\ UNCHANGED <<variant, stored, poll_interval, timeout, elapsed>>

\* The same pass of the loop with the polls not counted: the wait as the
\* code runs it, without the history that bounds it.
PollUncounted ==
    /\ pc = "poll"
    /\ IF LoopTest
          THEN LET code == ConsumeValue(auth_config.state)
               IN  IF variant = "memory"
                      THEN /\ auth_codes' = StoreWithout(auth_config.state)
                           /\ spent' = SpentAfter(auth_config.state, code)
                           /\ UNCHANGED polled
                           /\ IF Truthy(code)
                                 THEN WaitReturn(code)
                                 ELSE /\ pc' = "sleep"
                                      /\ UNCHANGED <<auth_config, waitResult>>
                      ELSE /\ UNCHANGED <<auth_codes, spent, auth_config, waitResult>>
                           /\ IF code /= None
                                 THEN polled' = code /\ pc' = "delete"
                                 ELSE UNCHANGED polled /\ pc' = "sleep"
          ELSE /\ waitResult' = [kind |-> "TimeoutError", state |-> auth_config.state]
               /\ pc' = "waited"
               /\ UNCHANGED <<auth_codes, spent, auth_config, polled>>
    /\ UNCHANGED <<variant, stored, poll_interval, timeout, elapsed, polls>>

\* The Redis consume_code's DELETE; the code the GET had read is returned,
\* and the wait returns with it.
PollDelete ==
    /\ pc = "delete"
    /\ auth_codes' = StoreWithout(auth_config.state)
    /\ spent' = SpentAfter(auth_config.state, polled)
    /\ polled' = None
    /\ WaitReturn(polled)
    /\ UNCHANGED <<variant, stored, poll_interval, timeout, elapsed, polls>>

\* await asyncio.sleep(self.poll_interval); elapsed += self.poll_interval
Sleep ==
    /\ pc = "sleep"
    /\ elapsed' = FloatAdd(elapsed, poll_interval.val)
    /\ pc' = "poll"
    /\ UNCHANGED <<auth_config, poll_interval, timeout, polled, polls, waitResult>>
    /\ UNCHANGED storeVars

\* main.py: AuthConfigHandler(auth_config=None, ...), no wait begun.
InitHandler ==
    /\ auth_config = NoCfg
    /\ elapsed = {}
    /\ polled = None
    /\ polls = 0
    /\ waitResult = NoResult

-----------------------------------------------------------------------------
(***************************************************************************)
(* One conversation: POST /run_sse -> SSEStreamGenerator.generate_stream   *)
(* -> ChatWithAgentUseCase.execute -> AgentCallerGoogle.call_agent_async   *)
(* -> AuthInterceptor.intercept_auth_event.  The generators are chained:   *)
(* a string call_agent_async yields is at once a frame of the stream, and  *)
(* an exception raised below travels up to generate_stream.                *)
(***************************************************************************)
\* Bound: the events the engine produces in one conversation.
MaxEvents == 3

Messages == {"hi", "", " "}

\* str.strip() on the messages and ids of the model.
Strip(m) == IF m = " " THEN "" ELSE m

RequestValues ==
    [new_message : Messages, session_id : SessionIds \cup {""},
     user_id : Users, app_name : {"a1", ""}]

NoRequest == [new_message |-> None, session_id |-> None, user_id |-> None,
              app_name |-> None]

NoExc == [type |-> None, arg |-> None]

\* ChatWithAgentUseCase._validate_request: the error, None when valid.
ValidationError(r) ==
    IF ~Truthy(r.new_message) \/ ~Truthy(Strip(r.new_message))
        THEN "Message cannot be empty"
    ELSE IF ~Truthy(r.session_id) \/ ~Truthy(Strip(r.session_id))
        THEN "Session ID is required"
    ELSE IF ~Truthy(r.user_id) \/ ~Truthy(Strip(r.user_id))
        THEN "User ID is required"
    ELSE IF ~Truthy(r.app_name) \/ ~Truthy(Strip(r.app_name))
        THEN "App name is required"
    ELSE None

\* A faulty frame, against which C9 is tested: the response is dropped.
AgentResponseFrame_Empty(response, r) ==
    [type |-> "agent_response", content |-> None,
     session_id |-> r.session_id, user_id |-> r.user_id]

\* AgentResponseMapper.map_response_to_sse
AgentResponseFrame(response, r) ==
    [type |-> "agent_response", content |-> response,
     session_id |-> r.session_id, user_id |-> r.user_id]

\* generate_stream's finally clause: the completion frame.
CompletionFrame(r) ==
    [type |-> "completion", content |-> None,
     session_id |-> r.session_id, user_id |-> r.user_id]

ErrorFrame(e, r) ==
    [type |-> "error", content |-> e.arg,
     session_id |-> r.session_id, user_id |-> r.user_id]

\* generate_stream's except clause: the frames it yields for exception e.
\* Its first statement is "raise e", so the error frame after it is never
\* built.
ExceptFrames(e, r) == <<>>

\* A faulty reading of the filter, against which C16 is tested: TRUE taken
\* to mean "let through".
Texts_FilterInverted(event) ==
    IF default_event_filter(event) THEN <<default_event_parser(event)>> ELSE <<>>

\* The strings the run loop yields for one event that is not an auth
\* response: "if not self.event_filter(ev): yield self.event_parser(ev)".
Texts(event) ==
    IF ~default_event_filter(event) THEN <<default_event_parser(event)>> ELSE <<>>

RECURSIVE ResponseFrames(_, _)
ResponseFrames(texts, r) ==
    IF texts = <<>> THEN <<>>
    ELSE <<AgentResponseFrame(Head(texts), r)>> \o ResponseFrames(Tail(texts), r)

\* A faulty yield, against which C2 is tested: the texts overtake the
\* earlier ones.
Yield_Reordered(texts) ==
    /\ yielded' = texts \o yielded
    /\ frames' = ResponseFrames(texts, req) \o frames

\* call_agent_async yields texts: execute passes them on, generate_stream
\* frames them.
Yield(texts) ==
    /\ yielded' = yielded \o texts
    /\ frames' = frames \o ResponseFrames(texts, req)

\* An exception leaves call_agent_async (or execute).
Raise(type, arg) ==
    /\ exc' = [type |-> type, arg |-> arg]
    /\ pc' = "finally"

\* generate_stream(req) is iterated: execute validates the request, and
\* call_agent_async wraps the message.
BeginStream(r) ==
    /\ pc = "idle"
    /\ req' = r
    /\ IF ValidationError(r) /= None
          THEN /\ Raise("ValueError", ValidationError(r))
               /\ UNCHANGED new_message
          ELSE /\ new_message' = UserContent(r.new_message)
               /\ pc' = "check"
               /\ UNCHANGED exc
    /\ UNCHANGED <<credentials_needed, first_call, function_call_id, existed>>
    /\ UNCHANGED histVars

\* check_session_exists and the test on it; lookup is what get_session
\* does: it answers ("ok") or raises ValueError.
CheckSession(lookup) ==
    /\ pc = "check"
    /\ LET found == lookup = "ok"
                    /\ GetSession(AppName, req.session_id, req.user_id) /= {}
       IN  /\ existed' = found
           /\ IF found
                 THEN /\ credentials_needed' = FALSE
                      /\ first_call' = TRUE
                      /\ pc' = "loop"
                      /\ UNCHANGED exc
                 ELSE /\ Raise("SessionNotFoundError", req.session_id)
                      /\ UNCHANGED <<credentials_needed, first_call>>
    /\ UNCHANGED <<req, new_message, function_call_id>>
    /\ UNCHANGED histVars

\* A faulty loop test, against which C25 is tested: the engine is run again
\* only on the first pass, whatever the last run met.
LoopHead_OnlyFirstCall ==
    /\ pc = "loop"
    /\ IF first_call
          THEN /\ first_call' = FALSE
               /\ credentials_needed' = FALSE
               /\ runs' = Append(runs, new_message)
               /\ pc' = "run"
          ELSE /\ pc' = "finally"
               /\ UNCHANGED <<first_call, credentials_needed, runs>>
    /\ UNCHANGED <<req, new_message, function_call_id, exc, existed>>
    /\ UNCHANGED <<produced, yielded, intercepted, frames, outcome>>

\* while credentials_needed or first_call: ... runner.run_async(new_message)
LoopHead ==
    /\ pc = "loop"
    /\ IF credentials_needed \/ first_call
          THEN /\ first_call' = FALSE
               /\ credentials_needed' = FALSE
               /\ runs' = Append(runs, new_message)
               /\ pc' = "run"
          ELSE /\ pc' = "finally"
               /\ UNCHANGED <<first_call, credentials_needed, runs>>
    /\ UNCHANGED <<req, new_message, function_call_id, exc, existed>>
    /\ UNCHANGED <<produced, yielded, intercepted, frames, outcome>>

\* A faulty run loop, against which C23 is tested: the interceptor's
\* events all go through the filter and the parser.
TakeAuthEvent_AllToCaller(ev) ==
    /\ Yield(Texts(ev))
    /\ UNCHANGED new_message

\* What the run loop does with an event the interceptor yields.
TakeAuthEvent(ev) ==
    IF IsEventAuthResponse(ev)
        THEN /\ new_message' = ev.parts
             /\ UNCHANGED <<yielded, frames>>
        ELSE /\ Yield(Texts(ev))
             /\ UNCHANGED new_message

Intercepted(ev) ==
    Append(intercepted, [event |-> ev, polls |-> polls, wait |-> waitResult.kind])

\* The engine produces an event.  An auth event starts intercept_auth_event,
\* which runs to its first yield (or raises); any other event is yielded if
\* the filter lets it through.
EngineYield(e) ==
    /\ pc = "run"
    /\ Len(produced) < MaxEvents
    /\ produced' = Append(produced, e)
    /\ IF is_auth_event(e)
          THEN LET call == get_auth_request_function_call(e)
                   cfg == call.args.authConfig
               IN  /\ credentials_needed' = TRUE
                   /\ polls' = 0
                   /\ waitResult' = NoResult
                   /\ IF InterceptError(e) /= None
                         THEN /\ Raise("ValueError", InterceptError(e))
                              /\ intercepted' = <<>>
                              /\ UNCHANGED <<function_call_id, auth_config, timeout,
                                             new_message, yielded, frames>>
                         ELSE /\ function_call_id' = call.id
                              /\ auth_config' = cfg
                              /\ IF AskError(cfg) /= None
                                    THEN /\ Raise("ValueError", AskError(cfg))
                                         /\ intercepted' = <<>>
                                         /\ UNCHANGED <<timeout, new_message,
                                                        yielded, frames>>
                                    ELSE /\ intercepted' =
                                              <<[event |-> ask_user_for_authentication(cfg),
                                                 polls |-> 0, wait |-> None]>>
                                         /\ TakeAuthEvent(ask_user_for_authentication(cfg))
                                         /\ timeout' = Lit(DefaultTimeout, 1)
                                         /\ pc' = "wait"
                                         /\ UNCHANGED exc
          ELSE /\ IF FilterError(e) /= None
                     THEN /\ Raise("TypeError", FilterError(e))
                          /\ UNCHANGED <<yielded, frames>>
                     ELSE /\ Yield(Texts(e))
                          /\ UNCHANGED <<pc, exc>>
               /\ UNCHANGED <<credentials_needed, function_call_id, auth_config,
                              polls, timeout, waitResult, intercepted, new_message>>
    /\ UNCHANGED <<req, first_call, existed, runs, outcome>>
    /\ UNCHANGED <<poll_interval, elapsed, polled>>

\* The engine's run ends.
EngineEnd ==
    /\ pc = "run"
    /\ pc' = "loop"
    /\ UNCHANGED convRest
    /\ UNCHANGED histVars

\* The engine raises in the middle of a run.
EngineRaise ==
    /\ pc = "run"
    /\ Raise("EngineError", "engine failure")
    /\ UNCHANGED <<req, new_message, credentials_needed, first_call,
                   function_call_id, existed>>
    /\ UNCHANGED histVars

\* A faulty resumption, against which C18 is tested: the wait's timeout is
\* swallowed and the engine is resumed as if the user had authorized.
InterceptResume_AfterTimeout ==
    /\ pc = "waited"
    /\ LET ev == create_event_with_code_credentials(function_call_id, auth_config)
       IN  /\ intercepted' = Intercepted(ev)
           /\ TakeAuthEvent(ev)
           /\ pc' = "loop"
           /\ UNCHANGED exc
    /\ UNCHANGED <<req, credentials_needed, first_call, function_call_id, existed>>
    /\ UNCHANGED <<produced, runs, outcome>>

\* The wait is over.  If it returned, intercept_auth_event yields the
\* resumption event and ends, and the run loop breaks out of the run; if it
\* raised, the exception leaves call_agent_async.
InterceptResume ==
    /\ pc = "waited"
    /\ IF waitResult.kind = "returned"
          THEN LET ev == create_event_with_code_credentials(function_call_id, auth_config)
               IN  /\ intercepted' = Intercepted(ev)
                   /\ TakeAuthEvent(ev)
                   /\ pc' = "loop"
                   /\ UNCHANGED exc
          ELSE /\ Raise(waitResult.kind, waitResult.state)
               /\ UNCHANGED <<intercepted, new_message, yielded, frames>>
    /\ UNCHANGED <<req, credentials_needed, first_call, function_call_id, existed>>
    /\ UNCHANGED <<produced, runs, outcome>>

\* A faulty finally clause, against which C7 is tested: no completion frame
\* after an exception.
Finally_OnlyOnSuccess ==
    /\ pc = "finally"
    /\ frames' = frames \o (IF exc /= NoExc THEN <<>> ELSE <<CompletionFrame(req)>>)
    /\ pc' = "close"
    /\ UNCHANGED convRest
    /\ UNCHANGED <<produced, runs, yielded, intercepted, outcome>>

\* generate_stream leaves its try block: on an exception the except clause
\* runs, and in every case the finally clause yields the completion frame.
Finally ==
    /\ pc = "finally"
    /\ frames' = frames
                 \o (IF exc /= NoExc THEN ExceptFrames(exc, req) ELSE <<>>)
                 \o <<CompletionFrame(req)>>
    /\ pc' = "close"
    /\ UNCHANGED convRest
    /\ UNCHANGED <<produced, runs, yielded, intercepted, outcome>>

\* The consumer asks for the frame after the completion frame: the
\* generator ends, or the exception re-raised in the except clause reaches
\* the consumer.
Close ==
    /\ pc = "close"
    /\ outcome' = IF exc /= NoExc THEN "raised" ELSE "ended"
    /\ pc' = "done"
    /\ UNCHANGED convRest
    /\ UNCHANGED <<produced, runs, yielded, intercepted, frames>>

InitConv ==
    /\ req = NoRequest
    /\ new_message = <<>>
    /\ credentials_needed = FALSE
    /\ first_call = FALSE
    /\ function_call_id = None
    /\ exc = NoExc
    /\ existed = FALSE

InitHist ==
    /\ produced = <<>>
    /\ runs = <<>>
    /\ yielded = <<>>
    /\ intercepted = <<>>
    /\ frames = <<>>
    /\ outcome = "open"


-----------------------------------------------------------------------------
(***************************************************************************)
(* Conversations served at the same time.  configure_app builds one        *)
(* AuthConfigHandler and one AuthInterceptor for the agent caller, so the  *)
(* tasks of all conversations of a process share the handler's auth_config *)
(* field; function_call_id and the wait's state are locals of a task.  The *)
(* event loop runs one task at a time and switches at an await: after the  *)
(* interceptor yields the AUTH_REQUIRED event (the frame is sent) and in   *)
(* asyncio.sleep.  consume_code is called without await.                   *)
(***************************************************************************)
\* Bound: the polls a wait makes before elapsed reaches the timeout.
MaxTaskPolls == 2

Convs == {1, 2}

\* The credential request the engine of conversation c makes: each
\* conversation has its own call id, authorization URI and state.
OwnId(c) == IF c = 1 THEN "fc1" ELSE "fc2"
OwnState(c) == IF c = 1 THEN "s1" ELSE "s2"
OwnUri(c) == IF c = 1 THEN "http://auth?x=1" ELSE "http://auth?x=2"
OwnEvent(c) ==
    Event(<<CallPart(CredentialRequest, OwnId(c), Negotiation(OwnUri(c), OwnState(c)))>>,
          {OwnId(c)})

\* A task: function_call_id is intercept_auth_event's local, state is
\* wait_for_user_authentication's local, code what a Redis GET read, asked
\* the AUTH_REQUIRED text yielded, response the resumption event (at most
\* one), error the exception raised.
IdleTask == [pc |-> "idle", function_call_id |-> None, state |-> None,
             code |-> None, polls |-> 0, asked |-> None, response |-> <<>>,
             error |-> None]

\* No other task is inside a consume_code call (it does not await).
Scheduled(c) == \A d \in Convs \ {c} : tasks[d].pc /= "delete"

\* intercept_auth_event up to its first yield: set_auth_config, then the
\* AUTH_REQUIRED event built from the handler's auth_config.
TaskIntercept(c) ==
    /\ tasks[c].pc = "idle"
    /\ Scheduled(c)
    /\ is_auth_event(OwnEvent(c))
    /\ InterceptError(OwnEvent(c)) = None
    /\ LET call == get_auth_request_function_call(OwnEvent(c))
       IN  /\ auth_config' = call.args.authConfig
           /\ tasks' = [tasks EXCEPT ![c].pc = "asked",
                                     ![c].function_call_id = call.id,
                                     ![c].asked = AuthRequiredText(auth_config')]
    /\ UNCHANGED storeVars

\* wait_for_user_authentication begins: state is read from the handler.
TaskWaitStart(c) ==
    /\ tasks[c].pc = "asked"
    /\ Scheduled(c)
    /\ IF ~Truthy(auth_config.state)
          THEN tasks' = [tasks EXCEPT ![c].pc = "failed", ![c].error = "ValueError"]
          ELSE tasks' = [tasks EXCEPT ![c].pc = "poll", ![c].state = auth_config.state]
    /\ UNCHANGED <<auth_config, storeVars>>

\* The code arrived: auth_response_uri and redirect_uri are written into
\* the handler's auth_config, which is returned and dumped into the
\* resumption event.
TaskReturn(c, code) ==
    /\ auth_config' =
           [auth_config EXCEPT !.auth_response_uri = AuthResponseUri(code, tasks[c].state),
                               !.redirect_uri = RedirectUri]
    /\ tasks' = [tasks EXCEPT
                   ![c].pc = "resumed",
                   ![c].code = None,
                   ![c].response =
                       <<create_event_with_code_credentials(tasks[c].function_call_id,
                                                            auth_config')>>]

\* One turn of the wait's loop: consume_code (of the Redis variant, its
\* GET) and, on a miss, the sleep; TimeoutError when elapsed has reached
\* the timeout.
TaskPoll(c) ==
    /\ tasks[c].pc = "poll"
    /\ Scheduled(c)
    /\ IF tasks[c].polls < MaxTaskPolls
          THEN LET code == ConsumeValue(tasks[c].state)
               IN  IF variant = "memory"
                      THEN /\ auth_codes' = StoreWithout(tasks[c].state)
                           /\ spent' = SpentAfter(tasks[c].state, code)
                           /\ IF Truthy(code)
                                 THEN TaskReturn(c, code)
                                 ELSE /\ tasks' = [tasks EXCEPT ![c].polls = @ + 1]
                                      /\ UNCHANGED auth_config
                      ELSE /\ UNCHANGED <<auth_codes, spent, auth_config>>
                           /\ IF code /= None
                                 THEN tasks' = [tasks EXCEPT ![c].pc = "delete",
                                                             ![c].code = code]
                                 ELSE tasks' = [tasks EXCEPT ![c].polls = @ + 1]
          ELSE /\ tasks' = [tasks EXCEPT ![c].pc = "failed",
                                         ![c].error = "TimeoutError"]
               /\ UNCHANGED <<auth_codes, spent, auth_config>>
    /\ UNCHANGED <<variant, stored>>

\* The Redis consume_code's DELETE, after which the wait returns.
TaskDelete(c) ==
    /\ tasks[c].pc = "delete"
    /\ auth_codes' = StoreWithout(tasks[c].state)
    /\ spent' = SpentAfter(tasks[c].state, tasks[c].code)
    /\ TaskReturn(c, tasks[c].code)
    /\ UNCHANGED <<variant, stored>>

InitTasks == tasks = [c \in Convs |-> IdleTask]

-----------------------------------------------------------------------------
(***************************************************************************)
(* The credential keys of BaseGmailCallback.  Identifiers and keys are     *)
(* sequences of characters, so that the joins and splits of the code are   *)
(* computed as the code computes them.                                     *)
(***************************************************************************)
\* Bound: the length of an identifier.
MaxIdLen == 2

\* self._uuid_separator, self._session_user_separator
UuidSeparator == "-"
SessionUserSeparator == ":"

Chars == {"a", UuidSeparator, SessionUserSeparator}
Ids == UNION {[1..k -> Chars] : k \in 1..MaxIdLen}

\* The canonical keys handed to get_persistent_credential_key.
CanonicalKeys == {"k1", "k2"}

KeyInputs == [credential_key : CanonicalKeys, session_id : Ids,
              session_user_id : Ids, gmail_user_id : Ids]

\* str.split(sep)
RECURSIVE Split(_, _)
Split(s, sep) ==
    IF \A i \in 1..Len(s) : s[i] /= sep THEN <<s>>
    ELSE LET i == CHOOSE j \in 1..Len(s) :
                      s[j] = sep /\ \A k \in 1..(j - 1) : s[k] /= sep
         IN  <<SubSeq(s, 1, i - 1)>> \o Split(SubSeq(s, i + 1, Len(s)), sep)

\* A faulty key, against which the uniqueness of the key per session, user
\* and account is tested: the account is left out.
get_persistent_credential_key_NoAccount(credential_key, session_id, session_user_id, gmail_user_id) ==
    session_id \o <<SessionUserSeparator>> \o session_user_id

\* get_persistent_credential_key: credential_key is not used.
get_persistent_credential_key(credential_key, session_id, session_user_id, gmail_user_id) ==
    session_id \o <<SessionUserSeparator>> \o session_user_id
               \o <<SessionUserSeparator>> \o gmail_user_id

\* get_session_user_from_persistent_credential_key: the unpacking of the
\* split into two names raises ValueError unless it has two elements.
get_session_user_from_persistent_credential_key(credential_key_redis) ==
    LET pieces == Split(credential_key_redis, UuidSeparator)
        uuid == pieces[Len(pieces)]
        names == Split(uuid, SessionUserSeparator)
    IN  IF Len(names) = 2
           THEN [error |-> None, value |-> names]
           ELSE [error |-> "ValueError", value |-> <<>>]

NoKey == [pc |-> "start", key |-> <<>>, error |-> None, value |-> <<>>]

\* The key is computed for the arguments.
EncodeKey ==
    /\ kout.pc = "start"
    /\ kout' = [kout EXCEPT !.pc = "encoded",
                            !.key = get_persistent_credential_key(
                                        kin.credential_key, kin.session_id,
                                        kin.session_user_id, kin.gmail_user_id)]
    /\ UNCHANGED kin

\* The key is decoded.
DecodeKey ==
    /\ kout.pc = "encoded"
    /\ LET r == get_session_user_from_persistent_credential_key(kout.key)
       IN  kout' = [kout EXCEPT !.pc = "decoded", !.error = r.error,
                                !.value = r.value]
    /\ UNCHANGED kin

InitKeys ==
    /\ kin = [credential_key |-> "k1", session_id |-> <<"a">>,
              session_user_id |-> <<"a">>, gmail_user_id |-> <<"a">>]
    /\ kout = NoKey

-----------------------------------------------------------------------------
(***************************************************************************)
(* The canonical key of a credential.  It is built from hash() of the      *)
(* serialized scheme and credential; Python salts the hash of a str with a *)
(* seed drawn when the interpreter starts, so within a worker process hash *)
(* is a function of the string's content, and nothing relates the          *)
(* functions of two processes or keeps two strings from hashing alike.     *)
(***************************************************************************)
\* Bound: the largest value of hash().
MaxHash == 1

\* The worker processes (fastapi.workers).
Procs == {1, 2}

\* Schemes and credentials: type_.name / auth_type.value and the text
\* model_dump_json() gives.
Schemes == {[type_name |-> "oauth2", json |-> "scheme:scopes=read"],
            [type_name |-> "oauth2", json |-> "scheme:scopes=send"]}
AuthCredentials == {[auth_type |-> "oauth2", json |-> "credential:client=1"],
                    [auth_type |-> "oauth2", json |-> "credential:client=2"]}

Contents == {s.json : s \in Schemes} \cup {c.json : c \in AuthCredentials}
Hashes == [Contents -> 0..MaxHash]

\* get_credential_key_from_auth_scheme_and_credential in process p: the
\* pieces the f-string joins with "_".
get_credential_key_from_auth_scheme_and_credential(p, auth_scheme, auth_credential) ==
    <<auth_scheme.type_name, hashfn[p][auth_scheme.json],
      auth_credential.auth_type, hashfn[p][auth_credential.json],
      "existing_exchanged_credential">>

\* get_temporary_credential_key in process p.
get_temporary_credential_key(p, auth_scheme, auth_credential) ==
    <<"temp:adk", auth_scheme.type_name, hashfn[p][auth_scheme.json],
      auth_credential.auth_type, hashfn[p][auth_credential.json]>>

\* Two computations of the canonical key are followed.
KeyCalls == {1, 2}

NoKeyCall == [done |-> FALSE, proc |-> 1,
              scheme |-> CHOOSE s \in Schemes : TRUE,
              credential |-> CHOOSE c \in AuthCredentials : TRUE,
              key |-> <<>>]

\* Process p computes the canonical key of a scheme and a credential it
\* has constructed.
ComputeKey(i, p, auth_scheme, auth_credential) ==
    /\ ~calls[i].done
    /\ calls' = [calls EXCEPT ![i] =
                   [done |-> TRUE, proc |-> p, scheme |-> auth_scheme,
                    credential |-> auth_credential,
                    key |-> get_credential_key_from_auth_scheme_and_credential(
                                p, auth_scheme, auth_credential)]]
    /\ UNCHANGED hashfn

InitCalls == calls = [i \in KeyCalls |-> NoKeyCall]

InitHashes ==
    /\ hashfn = [p \in Procs |-> [c \in Contents |-> 0]]
    /\ InitCalls

-----------------------------------------------------------------------------
(***************************************************************************)
(* The gmail tool hooks.  One GmailToolBeforeCallback and one              *)
(* GmailToolAfterCallback serve the tool calls of every session of the     *)
(* process.  Of a session's tool_context.state the model keeps the entry   *)
(* under the canonical key, which is absent, None or a credential, and the *)
(* entry under the temporary key, which is None or a credential; a         *)
(* credential is told by its oauth2.access_token.  The durable store holds *)
(* JSON texts under persistent keys.                                       *)
(***************************************************************************)
Absent == "<absent>"

Credentials == {"tokA", "tokB"}

\* The sessions whose tools are called, and the accounts (userId) of the
\* calls.
HookSessions == {[id |-> <<"s", "1">>, user_id |-> <<"u", "1">>],
                 [id |-> <<"s", "2">>, user_id |-> <<"u", "2">>]}
Accounts == {<<"m", "e">>, <<"y", "o", "u">>}
NoAccount == <<>>

\* The tool responses handed to the after hook.
Responses == {"r1", "r2"}

\* json.dumps / json.loads of a credential
Dumps(credential) == "{\"oauth2\": {\"access_token\": \"" \o credential \o "\"}}"
Loads(text) == CHOOSE c \in Credentials : Dumps(c) = text

\* The scheme and credential the hooks were built with, and the process
\* they run in.
HookProc == 1
HookScheme == CHOOSE s \in Schemes : TRUE
HookCredential == CHOOSE c \in AuthCredentials : TRUE

\* The persistent key of a session and an account.
PersistentKey(s, account) ==
    get_persistent_credential_key(
        get_credential_key_from_auth_scheme_and_credential(HookProc, HookScheme,
                                                           HookCredential),
        s.id, s.user_id, account)

DurableKeys == {PersistentKey(s, g) : s \in HookSessions, g \in Accounts}

\* temp_credential_key.replace("temp:adk_", "")
\*     == credential_key.replace("_existing_exchanged_credential", "")
DuplicatedKey ==
    Tail(get_temporary_credential_key(HookProc, HookScheme, HookCredential))
        = SubSeq(get_credential_key_from_auth_scheme_and_credential(
                     HookProc, HookScheme, HookCredential), 1, 4)

\* tool_context.state.get(key) is None
IsNone(entry) == entry \in {Absent, None}

\* A faulty purge, against which C21 is tested: the durable entry of the
\* previous account is kept.
DeleteStale_KeepsDurable(s, userId) ==
    [cred |-> IF last_user /= NoAccount /\ last_user /= userId /\ tstate[s].cred /= Absent
                 THEN None ELSE tstate[s].cred,
     durable |-> durable, error |-> None]

\* A faulty purge, against which C32 is tested: for the account of the
\* call before, the temporary credential is not looked at.
DeleteStale_NoSafeguard(s, userId) ==
    LET st == tstate[s]
        same == [cred |-> st.cred, durable |-> durable, error |-> None]
    IN  IF last_user = NoAccount THEN same
        ELSE IF last_user /= userId
          THEN [cred |-> IF st.cred /= Absent THEN None ELSE Absent,
                durable |-> IF redis_on
                               THEN [durable EXCEPT ![PersistentKey(s, last_user)] = None]
                               ELSE durable,
                error |-> None]
        ELSE same

\* _delete_stale_credential for a call of session s with account userId:
\* the session's entry under the canonical key and the durable store it
\* leaves, and the error it raises (None when it returns).
DeleteStale(s, userId) ==
    LET st == tstate[s]
        same == [cred |-> st.cred, durable |-> durable, error |-> None]
    IN  IF last_user = NoAccount THEN same
        ELSE IF last_user /= userId
          THEN [cred |-> IF st.cred /= Absent THEN None ELSE Absent,
                durable |-> IF redis_on
                               THEN [durable EXCEPT ![PersistentKey(s, last_user)] = None]
                               ELSE durable,
                error |-> None]
        ELSE IF st.temp = None THEN same
        ELSE IF st.cred = None
          THEN [same EXCEPT !.error = "AttributeError"]
        ELSE IF DuplicatedKey /\ st.cred /= st.temp /\ ~IsNone(st.cred)
          THEN [same EXCEPT !.cred = None]
        ELSE same

\* A faulty load, against which C20 is tested: the durable entry replaces
\* the credential the state holds.
LoadedCredential_Overwrites(cred, store, s, userId) ==
    IF redis_on /\ store[PersistentKey(s, userId)] /= None
       THEN Loads(store[PersistentKey(s, userId)])
       ELSE cred

\* The load step of the before hook: the entry under the canonical key
\* after it, given the entry and the durable store before it.
LoadedCredential(cred, store, s, userId) ==
    IF IsNone(cred) /\ redis_on /\ store[PersistentKey(s, userId)] /= None
       THEN Loads(store[PersistentKey(s, userId)])
       ELSE cred

\* A faulty persist, against which C19 is tested: the credential is
\* written under the key of another account.
PersistedStore_OtherAccount(s, userId) ==
    IF redis_on /\ ~IsNone(tstate[s].cred)
       THEN [durable EXCEPT
               ![PersistentKey(s, CHOOSE g \in Accounts : g /= userId)] =
                   Dumps(tstate[s].cred)]
       ELSE durable

\* The durable store after the after hook of a call with an account.
PersistedStore(s, userId) ==
    IF redis_on /\ ~IsNone(tstate[s].cred)
       THEN [durable EXCEPT ![PersistentKey(s, userId)] = Dumps(tstate[s].cred)]
       ELSE durable

\* The last hook call: its arguments, what it returned or raised; tick
\* tells one call from the next.
NoHook == [tick |-> 0, kind |-> None, session |-> CHOOSE s \in HookSessions : TRUE,
           userId |-> NoAccount, response |-> None, returned |-> None,
           error |-> None]

Logged(kind, s, userId, response, returned, error) ==
    [tick |-> 1 - hookLog.tick, kind |-> kind, session |-> s, userId |-> userId,
     response |-> response, returned |-> returned, error |-> error]

\* A faulty hook, against which C31 is tested: a call without an account
\* makes the instance forget the account of the call before.
BeforeHook_ForgetsAccount(s, userId) ==
    IF userId = NoAccount
       THEN /\ hookLog' = Logged("before", s, userId, None, None, None)
            /\ last_user' = NoAccount
            /\ UNCHANGED <<redis_on, durable, tstate>>
       ELSE LET d == DeleteStale(s, userId)
            IN  /\ hookLog' = Logged("before", s, userId, None, None, d.error)
                /\ durable' = d.durable
                /\ IF d.error /= None
                      THEN /\ tstate' = [tstate EXCEPT ![s].cred = d.cred]
                           /\ UNCHANGED last_user
                      ELSE /\ last_user' = userId
                           /\ tstate' = [tstate EXCEPT ![s].cred =
                                  LoadedCredential(d.cred, d.durable, s, userId)]
                /\ UNCHANGED redis_on

\* GmailToolBeforeCallback.__call__ for a tool call of session s whose
\* arguments carry userId (NoAccount when they carry none).
BeforeHook(s, userId) ==
    IF userId = NoAccount
       THEN /\ hookLog' = Logged("before", s, userId, None, None, None)
            /\ UNCHANGED <<redis_on, durable, tstate, last_user>>
       ELSE LET d == DeleteStale(s, userId)
            IN  /\ hookLog' = Logged("before", s, userId, None, None, d.error)
                /\ durable' = d.durable
                /\ IF d.error /= None
                      THEN /\ tstate' = [tstate EXCEPT ![s].cred = d.cred]
                           /\ UNCHANGED last_user
                      ELSE /\ last_user' = userId
                           /\ tstate' = [tstate EXCEPT ![s].cred =
                                  LoadedCredential(d.cred, d.durable, s, userId)]
                /\ UNCHANGED redis_on

\* GmailToolAfterCallback.__call__
AfterHook(s, userId, tool_response) ==
    /\ hookLog' = Logged("after", s, userId, tool_response, tool_response, None)
    /\ durable' = IF userId = NoAccount THEN durable ELSE PersistedStore(s, userId)
    /\ UNCHANGED <<redis_on, tstate, last_user>>

\* The engine, after an OAuth2 flow, keeps the exchanged credential in the
\* session's state under the temporary key and under the canonical key.
EngineStoresCredential(s, c) ==
    /\ tstate[s].cred /= c
    /\ tstate' = [tstate EXCEPT ![s].cred = c]
    /\ UNCHANGED <<redis_on, durable, last_user, hookLog>>

EngineStoresTemp(s, c) ==
    /\ tstate[s].temp /= c
    /\ tstate' = [tstate EXCEPT ![s].temp = c]
    /\ UNCHANGED <<redis_on, durable, last_user, hookLog>>

\* The credential the user's OAuth2 flow yields for an account.
AccountToken(account) == IF account = <<"m", "e">> THEN "tokA" ELSE "tokB"

\* A tool call is under way: its before hook has returned and its after
\* hook has not run.
CallUnderWay == hookLog.kind = "before" /\ hookLog.error = None

\* The tool of the call under way finds no credential under the canonical
\* key and asks for one; the user authorizes with the call's account, and
\* the engine keeps the exchanged credential under the temporary and the
\* canonical key.
EngineObtains ==
    /\ CallUnderWay
    /\ hookLog.userId /= NoAccount
    /\ IsNone(tstate[hookLog.session].cred)
    /\ tstate' = [tstate EXCEPT ![hookLog.session] =
                     [cred |-> AccountToken(hookLog.userId),
                      temp |-> AccountToken(hookLog.userId)]]
    /\ UNCHANGED <<redis_on, durable, last_user, hookLog>>

\* The next call goes through a before-hook instance that has seen no call:
\* the instance of another tool (load_agent builds one for each tool), or
\* the one built after a restart.
FreshInstance ==
    /\ ~CallUnderWay
    /\ last_user /= NoAccount
    /\ last_user' = NoAccount
    /\ UNCHANGED <<redis_on, durable, tstate, hookLog>>

InitHooks ==
    /\ redis_on = FALSE
    /\ durable = [k \in DurableKeys |-> None]
    /\ tstate = [s \in HookSessions |-> [cred |-> Absent, temp |-> None]]
    /\ last_user = NoAccount
    /\ hookLog = NoHook

-----------------------------------------------------------------------------
\* The variables only the specifications of single components use, and
\* their initial values.
extVars == <<logVars, taskVars, keyVars, hashVars, hookVars>>

InitExt == InitLog /\ InitTasks /\ InitKeys /\ InitHashes /\ InitHooks
-----------------------------------------------------------------------------
(***************************************************************************)
(* The events the engine is let produce, and the specifications.           *)
(***************************************************************************)
TextEvent(t) == Event(<<TextPart(t)>>, {})

\* A tool call that is no credential request: it has no text.
ToolEvent == Event(<<CallPart("get_weather", "fc0", NoCfg)>>, {"fc0"})

\* A well-formed auth event for the negotiation of state s.
AuthEvent(id, s) ==
    Event(<<CallPart(CredentialRequest, id, Negotiation("http://auth?x=1", s))>>, {id})

\* The credential request's id is not among the long-running tool ids.
ResolvedAuthEvent == Event(<<CallPart(CredentialRequest, "fc1", Negotiation("http://auth?x=1", "s1"))>>, {})

\* Auth events intercept_auth_event rejects.
NotAMappingEvent == Event(<<CallPart(CredentialRequest, "fc1", NotAMapping)>>, {"fc1"})
NoStateEvent == Event(<<CallPart(CredentialRequest, "fc1", Negotiation("http://auth?x=1", None))>>, {"fc1"})

EngineEvents ==
    {TextEvent("t1"), TextEvent("t2"), ToolEvent,
     AuthEvent("fc1", "s1"), AuthEvent("fc2", "s2"),
     ResolvedAuthEvent, NotAMappingEvent, NoStateEvent}

vars == <<storeVars, clientVars, sessionVars, waitVars, convVars, histVars,
          extVars>>

\* ---- the code store and its clients
StoreInit ==
    /\ InitStore /\ InitClients /\ InitSessions /\ InitHandler /\ InitConv /\ InitHist
    /\ InitExt
    /\ poll_interval = Lit(DefaultPollInterval, 1)
    /\ timeout = Lit(DefaultTimeout, 1)
    /\ pc = "idle"

StoreNext ==
    /\ \/ \E q \in QueryParams : HandleCallback(q) /\ UNCHANGED clientVars
       \/ \E s \in States : ExpireCode(s) /\ UNCHANGED clientVars
       \/ \E c \in Clients, s \in States : MemoryConsume(c, s)
       \/ \E c \in Clients, s \in States : RedisGet(c, s)
       \/ \E c \in Clients : RedisDelete(c)
    /\ UNCHANGED <<sessionVars, waitVars, convVars, histVars>>
    /\ UNCHANGED extVars

SpecStore == StoreInit /\ [][StoreNext]_vars

\* ---- wait_for_user_authentication called on its own
WaitInit ==
    /\ InitStore /\ InitClients /\ InitSessions /\ InitConv /\ InitHist
    /\ InitExt
    /\ \E st \in States \cup {None, ""} : auth_config = Negotiation("http://auth?x=1", st)
    /\ poll_interval \in PollIntervals
    /\ timeout \in Timeouts
    /\ elapsed = {}
    /\ polled = None
    /\ polls = 0
    /\ waitResult = NoResult
    /\ pc = "wait"

WaitNext ==
    /\ \/ WaitStart
       \/ Poll
       \/ PollDelete
       \/ Sleep
       \/ \E q \in QueryParams :
              HandleCallback(q) /\ UNCHANGED <<pc, waitVars>>
       \/ \E s \in States : ExpireCode(s) /\ UNCHANGED <<pc, waitVars>>
    /\ UNCHANGED <<clientVars, sessionVars, convRest, histVars>>
    /\ UNCHANGED extVars

SpecWait == WaitInit /\ [][WaitNext]_vars

\* ---- session registration and the entry of a run
SessionEvents == {TextEvent("t1")}

SessionInit ==
    /\ InitStore /\ InitClients /\ InitSessions /\ InitHandler /\ InitConv /\ InitHist
    /\ InitExt
    /\ poll_interval = Lit(DefaultPollInterval, 1)
    /\ timeout = Lit(DefaultTimeout, 1)
    /\ pc = "idle"

SessionNext ==
    /\ \/ \E s \in SessionValues :
              RegisterSession(s) /\ UNCHANGED <<convVars, histVars, waitVars>>
       \/ /\ \/ \E r \in RequestValues : BeginStream(r)
             \/ \E l \in {"ok", "ValueError"} : CheckSession(l)
             \/ LoopHead
             \/ EngineEnd
             \/ EngineRaise
             \/ Finally
             \/ Close
          /\ UNCHANGED <<sessionVars, waitVars>>
       \/ \E e \in SessionEvents : EngineYield(e) /\ UNCHANGED sessionVars
    /\ UNCHANGED <<storeVars, clientVars>>
    /\ UNCHANGED extVars

SpecSession == SessionInit /\ [][SessionNext]_vars

\* ---- one conversation
RegisteredSession == [id |-> "s1", user_id |-> "u1", app_name |-> AppName]

MainRequests ==
    {[new_message |-> "hi", session_id |-> "s1", user_id |-> "u1", app_name |-> "a1"],
     [new_message |-> "hi", session_id |-> "s2", user_id |-> "u1", app_name |-> "a1"],
     [new_message |-> " ", session_id |-> "s1", user_id |-> "u1", app_name |-> "a1"]}

\* The redirects that arrive during a conversation: with or without a
\* code, a state and an error.
MainCallbacks ==
    {q \in QueryParams : q.code \in {"c1", None} /\ q.state /= ""
                         /\ q.error \in {None, "access_denied"}}

Init ==
    /\ InitStore /\ InitClients /\ InitHandler /\ InitConv /\ InitHist
    /\ InitExt
    /\ sessions = {RegisteredSession}
    /\ lastReg = [request |-> {RegisteredSession}, before |-> {},
                  response |-> {CreateSessionResponse(RegisteredSession, None)}]
    /\ poll_interval = Lit(DefaultPollInterval, 1)
    /\ timeout = Lit(DefaultTimeout, 1)
    /\ pc = "idle"

Next ==
    /\ \/ /\ \/ \E r \in MainRequests : BeginStream(r)
             \/ \E l \in {"ok", "ValueError"} : CheckSession(l)
             \/ LoopHead
             \/ EngineEnd
             \/ EngineRaise
             \/ Finally
             \/ Close
          /\ UNCHANGED <<storeVars, waitVars>>
       \/ \E e \in EngineEvents : EngineYield(e) /\ UNCHANGED storeVars
       \/ InterceptResume
            /\ UNCHANGED <<storeVars, auth_config, poll_interval, timeout,
                           elapsed, polled, polls, waitResult>>
       \/ /\ \/ WaitStart
             \/ Poll
             \/ PollDelete
             \/ Sleep
          /\ UNCHANGED <<convRest, histVars>>
       \/ \E q \in MainCallbacks :
              HandleCallback(q) /\ UNCHANGED <<waitVars, convVars, histVars>>
       \/ \E s \in States :
              ExpireCode(s) /\ UNCHANGED <<waitVars, convVars, histVars>>
    /\ UNCHANGED <<clientVars, sessionVars>>
    /\ UNCHANGED extVars

Spec == Init /\ [][Next]_vars


-----------------------------------------------------------------------------
(***************************************************************************)
(* Specifications of single components.                                    *)
(***************************************************************************)
\* ---- handle_callback served against a store that is also consumed
CallbackInit ==
    /\ InitStore /\ InitClients /\ InitSessions /\ InitHandler /\ InitConv /\ InitHist
    /\ InitExt
    /\ poll_interval = Lit(DefaultPollInterval, 1)
    /\ timeout = Lit(DefaultTimeout, 1)
    /\ pc = "idle"

CallbackNext ==
    /\ \/ \E q \in QueryParams : ServeCallback(q) /\ UNCHANGED <<clientVars, reads, prevAccount>>
       \/ \E s \in States : ExpireCode(s) /\ UNCHANGED <<clientVars, logVars>>
       \/ \E s \in States : MemoryConsume(1, s) /\ UNCHANGED logVars
       \/ \E s \in States : RedisGet(1, s) /\ UNCHANGED logVars
       \/ RedisDelete(1) /\ UNCHANGED logVars
    /\ UNCHANGED <<sessionVars, waitVars, convVars, histVars, taskVars, keyVars, hashVars,
                   hookVars>>

SpecCallback == CallbackInit /\ [][CallbackNext]_vars

\* ---- the run loop over events of every shape, none of them an auth event
TwoTextsEvent == Event(<<TextPart("a"), TextPart("b")>>, {})
TextCallTextEvent ==
    Event(<<TextPart("a"), CallPart("get_weather", "fc0", NoCfg), TextPart("b")>>,
          {"fc0"})
EmptyTextEvent == Event(<<CallPart("get_weather", "fc0", NoCfg), TextPart("")>>, {})
EmptyPartsEvent == Event(<<>>, {})

LoopEvents ==
    {TextEvent("t1"), TwoTextsEvent, TextCallTextEvent, EmptyTextEvent,
     ToolEvent, ResolvedAuthEvent, EmptyPartsEvent, NoPartsEvent}

LoopNext ==
    /\ \/ /\ \/ \E r \in MainRequests : BeginStream(r)
             \/ \E l \in {"ok", "ValueError"} : CheckSession(l)
             \/ LoopHead
             \/ EngineEnd
             \/ EngineRaise
             \/ Finally
             \/ Close
          /\ UNCHANGED waitVars
       \/ \E e \in LoopEvents : EngineYield(e)
    /\ UNCHANGED <<storeVars, clientVars, sessionVars, extVars>>

SpecLoop == Init /\ [][LoopNext]_vars

\* ---- two conversations of one process in a handshake at the same time
SharedInit ==
    /\ InitStore /\ InitClients /\ InitSessions /\ InitHandler /\ InitConv /\ InitHist
    /\ InitExt
    /\ poll_interval = Lit(DefaultPollInterval, 1)
    /\ timeout = Lit(DefaultTimeout, 1)
    /\ pc = "idle"

SharedNext ==
    /\ \/ \E c \in Convs : TaskIntercept(c)
       \/ \E c \in Convs : TaskWaitStart(c)
       \/ \E c \in Convs : TaskPoll(c)
       \/ \E c \in Convs : TaskDelete(c)
       \/ \E q \in MainCallbacks : HandleCallback(q) /\ UNCHANGED <<auth_config, tasks>>
       \/ \E s \in States : ExpireCode(s) /\ UNCHANGED <<auth_config, tasks>>
    /\ UNCHANGED <<poll_interval, timeout, elapsed, polled, polls, waitResult>>
    /\ UNCHANGED <<clientVars, sessionVars, convVars, histVars, logVars>>
    /\ UNCHANGED <<keyVars, hashVars, hookVars>>

SpecShared == SharedInit /\ [][SharedNext]_vars

\* ---- the persistent key of a credential, computed and decoded
KeyInit ==
    /\ InitStore /\ InitClients /\ InitSessions /\ InitHandler /\ InitConv /\ InitHist
    /\ InitLog /\ InitTasks /\ InitHashes /\ InitHooks
    /\ kin \in KeyInputs
    /\ kout = NoKey
    /\ poll_interval = Lit(DefaultPollInterval, 1)
    /\ timeout = Lit(DefaultTimeout, 1)
    /\ pc = "idle"

KeyNext ==
    /\ \/ EncodeKey
       \/ DecodeKey
    /\ UNCHANGED <<storeVars, clientVars, sessionVars, waitVars, convVars, histVars>>
    /\ UNCHANGED <<logVars, taskVars, hashVars, hookVars>>

SpecKey == KeyInit /\ [][KeyNext]_vars

\* ---- the canonical key computed in worker processes
HashInit ==
    /\ InitStore /\ InitClients /\ InitSessions /\ InitHandler /\ InitConv /\ InitHist
    /\ InitLog /\ InitTasks /\ InitKeys /\ InitHooks
    /\ hashfn \in [Procs -> Hashes]
    /\ InitCalls
    /\ poll_interval = Lit(DefaultPollInterval, 1)
    /\ timeout = Lit(DefaultTimeout, 1)
    /\ pc = "idle"

HashNext ==
    /\ \E i \in KeyCalls, p \in Procs, s \in Schemes, c \in AuthCredentials :
           ComputeKey(i, p, s, c)
    /\ UNCHANGED <<storeVars, clientVars, sessionVars, waitVars, convVars, histVars>>
    /\ UNCHANGED <<logVars, taskVars, keyVars, hookVars>>

SpecHash == HashInit /\ [][HashNext]_vars

\* ---- the gmail tool hooks called for the tools of two sessions
HookInit ==
    /\ InitStore /\ variant = "memory"
    /\ InitClients /\ InitSessions /\ InitHandler /\ InitConv /\ InitHist
    /\ InitLog /\ InitTasks /\ InitKeys /\ InitHashes
    /\ redis_on \in BOOLEAN
    /\ durable = [k \in DurableKeys |-> None]
    /\ tstate = [s \in HookSessions |-> [cred |-> Absent, temp |-> None]]
    /\ last_user = NoAccount
    /\ hookLog = NoHook
    /\ poll_interval = Lit(DefaultPollInterval, 1)
    /\ timeout = Lit(DefaultTimeout, 1)
    /\ pc = "idle"

HookNext ==
    /\ \/ \E s \in HookSessions, g \in Accounts \cup {NoAccount} : BeforeHook(s, g)
       \/ \E s \in HookSessions, g \in Accounts \cup {NoAccount}, r \in Responses :
              AfterHook(s, g, r)
       \/ \E s \in HookSessions, c \in Credentials : EngineStoresCredential(s, c)
       \/ \E s \in HookSessions, c \in Credentials : EngineStoresTemp(s, c)
    /\ UNCHANGED <<storeVars, clientVars, sessionVars, waitVars, convVars, histVars>>
    /\ UNCHANGED <<logVars, taskVars, keyVars, hashVars>>

SpecHooks == HookInit /\ [][HookNext]_vars

\* ---- the run loop's detection of auth events, over events of every shape
\* The credential request's id is not the long-running tool's.
OtherIdEvent ==
    Event(<<CallPart(CredentialRequest, "fc1", Negotiation("http://auth?x=1", "s1"))>>,
          {"fc9"})
\* A credential request without an id, among long-running tools.
NoIdEvent ==
    Event(<<CallPart(CredentialRequest, None, Negotiation("http://auth?x=1", "s1"))>>,
          {"fc1"})
\* A function response, not a call, named as the credential request.
ResponseOnlyEvent ==
    Event(<<ResponsePart(CredentialRequest, "fc1", Negotiation("http://auth?x=1", "s1"))>>,
          {"fc1"})
\* The credential request is the second part, after a text.
TextThenAuthEvent ==
    Event(<<TextPart("t1"),
            CallPart(CredentialRequest, "fc2", Negotiation("http://auth?x=1", "s2"))>>,
          {"fc2"})
\* Long-running tool ids on a content without parts.
NoPartsLongRunningEvent == [NoPartsEvent EXCEPT !.lr = {"fc1"}]

DetectEvents ==
    {AuthEvent("fc1", "s1"), TextThenAuthEvent, ResolvedAuthEvent, OtherIdEvent,
     NoIdEvent, ResponseOnlyEvent, ToolEvent, TextEvent("t1"),
     EmptyPartsEvent, NoPartsLongRunningEvent}

DetectNext ==
    /\ \/ /\ \/ \E r \in MainRequests : BeginStream(r)
             \/ \E l \in {"ok", "ValueError"} : CheckSession(l)
             \/ LoopHead
             \/ EngineEnd
             \/ Finally
             \/ Close
          /\ UNCHANGED waitVars
       \/ \E e \in DetectEvents : EngineYield(e)
    /\ UNCHANGED <<storeVars, clientVars, sessionVars, extVars>>

SpecDetect == Init /\ [][DetectNext]_vars

\* ---- one conversation whose engine asks for credentials, also in an
\* ---- event that carries a text
RestartEvents ==
    {AuthEvent("fc1", "s1"), TextThenAuthEvent, TextEvent("t2"), NoStateEvent}

RestartNext ==
    /\ \/ /\ \/ \E r \in MainRequests : BeginStream(r)
             \/ \E l \in {"ok", "ValueError"} : CheckSession(l)
             \/ LoopHead
             \/ EngineEnd
             \/ EngineRaise
             \/ Finally
             \/ Close
          /\ UNCHANGED <<storeVars, waitVars>>
       \/ \E e \in RestartEvents : EngineYield(e) /\ UNCHANGED storeVars
       \/ InterceptResume
            /\ UNCHANGED <<storeVars, auth_config, poll_interval, timeout,
                           elapsed, polled, polls, waitResult>>
       \/ /\ \/ WaitStart
             \/ Poll
             \/ PollDelete
             \/ Sleep
          /\ UNCHANGED <<convRest, histVars>>
       \/ \E q \in MainCallbacks :
              HandleCallback(q) /\ UNCHANGED <<waitVars, convVars, histVars>>
       \/ \E s \in States :
              ExpireCode(s) /\ UNCHANGED <<waitVars, convVars, histVars>>
    /\ UNCHANGED <<clientVars, sessionVars>>
    /\ UNCHANGED extVars

SpecRestart == Init /\ [][RestartNext]_vars

\* ---- one conversation whose engine sends credential requests that the
\* ---- interceptor cannot serve
\* The credential request has no authConfig argument.
MissingConfigEvent == Event(<<CallPart(CredentialRequest, "fc2", NoCfg)>>, {"fc2"})

\* The negotiation has no authorization URI.
NoUriEvent == Event(<<CallPart(CredentialRequest, "fc2", Negotiation(None, "s2"))>>, {"fc2"})

MalformedEvents ==
    {AuthEvent("fc1", "s1"), TextEvent("t1"),
     MissingConfigEvent, NotAMappingEvent, NoStateEvent, NoUriEvent}

MalformedNext ==
    /\ \/ /\ \/ \E r \in MainRequests : BeginStream(r)
             \/ \E l \in {"ok", "ValueError"} : CheckSession(l)
             \/ LoopHead
             \/ EngineEnd
             \/ EngineRaise
             \/ Finally
             \/ Close
          /\ UNCHANGED <<storeVars, waitVars>>
       \/ \E e \in MalformedEvents : EngineYield(e) /\ UNCHANGED storeVars
       \/ InterceptResume
            /\ UNCHANGED <<storeVars, auth_config, poll_interval, timeout,
                           elapsed, polled, polls, waitResult>>
       \/ /\ \/ WaitStart
             \/ Poll
             \/ PollDelete
             \/ Sleep
          /\ UNCHANGED <<convRest, histVars>>
       \/ \E q \in MainCallbacks :
              HandleCallback(q) /\ UNCHANGED <<waitVars, convVars, histVars>>
       \/ \E s \in States :
              ExpireCode(s) /\ UNCHANGED <<waitVars, convVars, histVars>>
    /\ UNCHANGED <<clientVars, sessionVars>>
    /\ UNCHANGED extVars

SpecMalformed == Init /\ [][MalformedNext]_vars

\* ---- the code store read with get_code while it is written and consumed
ReadInit ==
    /\ InitStore /\ InitClients /\ InitSessions /\ InitHandler /\ InitConv /\ InitHist
    /\ InitExt
    /\ poll_interval = Lit(DefaultPollInterval, 1)
    /\ timeout = Lit(DefaultTimeout, 1)
    /\ pc = "idle"

ReadNext ==
    /\ \/ \E q \in MainCallbacks : HandleCallback(q) /\ UNCHANGED <<clientVars, reads>>
       \/ \E s \in States : ExpireCode(s) /\ UNCHANGED <<clientVars, reads>>
       \/ \E s \in States : MemoryConsume(1, s) /\ UNCHANGED reads
       \/ \E s \in States : RedisGet(1, s) /\ UNCHANGED reads
       \/ RedisDelete(1) /\ UNCHANGED reads
       \/ \E s \in States : ReadCode(s) /\ UNCHANGED clientVars
    /\ UNCHANGED <<sessionVars, waitVars, convVars, histVars>>
    /\ UNCHANGED <<lastCb, prevAccount, taskVars, keyVars, hashVars, hookVars>>

SpecRead == ReadInit /\ [][ReadNext]_vars

\* ---- wait_for_user_authentication run to its end: the event loop resumes
\* ---- the task after every sleep, so each step of the wait that can be
\* ---- taken is taken; redirects arrive or not
WaitTask ==
    /\ \/ WaitStart
       \/ PollUncounted
       \/ PollDelete
       \/ Sleep
    /\ UNCHANGED <<clientVars, sessionVars, convRest, histVars>>
    /\ UNCHANGED extVars

\* Bound: the timeouts drawn for the wait run to its end, in tenths of a
\* second.
MaxLiveTimeout == 3

WaitLiveInit ==
    /\ InitStore /\ InitClients /\ InitSessions /\ InitConv /\ InitHist
    /\ InitExt
    /\ auth_config = Negotiation("http://auth?x=1", "s1")
    /\ poll_interval \in PollIntervals
    /\ timeout \in {Lit(k, 10) : k \in 0..MaxLiveTimeout}
    /\ elapsed = {}
    /\ polled = None
    /\ polls = 0
    /\ waitResult = NoResult
    /\ pc = "wait"

WaitLiveNext ==
    \/ WaitTask
    \/ /\ \/ \E q \in MainCallbacks :
                HandleCallback(q) /\ UNCHANGED <<pc, waitVars>>
          \/ \E s \in States : ExpireCode(s) /\ UNCHANGED <<pc, waitVars>>
       /\ UNCHANGED <<clientVars, sessionVars, convRest, histVars>>
       /\ UNCHANGED extVars

\* A step of the task, told by its position: every step of the wait moves
\* the task to another position, no other step does, and the task can
\* take a step at every position but its last.
TaskStep ==
    /\ pc /= "waited"
    /\ pc' \in {"poll", "delete", "sleep", "waited"}
    /\ pc' /= pc

SpecWaitLive == WaitLiveInit /\ [][WaitLiveNext]_vars /\ WF_pc(TaskStep)

\* ---- tool calls of two sessions, one at a time, each with its before
\* ---- hook, the credential the engine obtains when none is there, and its
\* ---- after hook
BindingInit ==
    /\ InitStore /\ variant = "memory"
    /\ InitClients /\ InitSessions /\ InitHandler /\ InitConv /\ InitHist
    /\ InitLog /\ InitTasks /\ InitKeys /\ InitHashes
    /\ redis_on \in BOOLEAN
    /\ durable = [k \in DurableKeys |-> None]
    /\ tstate = [s \in HookSessions |-> [cred |-> Absent, temp |-> None]]
    /\ last_user = NoAccount
    /\ hookLog = NoHook
    /\ poll_interval = Lit(DefaultPollInterval, 1)
    /\ timeout = Lit(DefaultTimeout, 1)
    /\ pc = "idle"

BindingNext ==
    /\ \/ \E s \in HookSessions, g \in Accounts :
              /\ ~CallUnderWay
              /\ BeforeHook(s, g)
              /\ prevAccount' = {p \in prevAccount : p[1] /= s} \cup {<<s, g>>}
       \/ EngineObtains /\ UNCHANGED prevAccount
       \/ \E r \in Responses :
              /\ CallUnderWay
              /\ AfterHook(hookLog.session, hookLog.userId, r)
              /\ UNCHANGED prevAccount
       \/ FreshInstance /\ UNCHANGED prevAccount
    /\ UNCHANGED <<storeVars, clientVars, sessionVars, waitVars, convVars, histVars>>
    /\ UNCHANGED <<lastCb, reads, taskVars, keyVars, hashVars>>

SpecBinding == BindingInit /\ [][BindingNext]_vars
-----------------------------------------------------------------------------
(***************************************************************************)
(* Claims about the code store.                                            *)
(***************************************************************************)

\* How many consume_code calls returned a code of state s.
RECURSIVE HandedOut(_, _)
HandedOut(log, s) ==
    IF log = <<>> THEN 0
    ELSE (IF Head(log).state = s /\ Head(log).code /= None THEN 1 ELSE 0)
         + HandedOut(Tail(log), s)

\* C3: consume_code is single-use in both variants: once a consume_code of a
\* state has returned a code and no callback has stored one for that state
\* since, consume_code and get_code of that state return absent.
C3_SingleUse ==
    \A s \in States : spent[s] => (ConsumeValue(s) = None /\ GetCode(s) = None)

\* C3 witness: a consume_code returned a code, a later one of the same state
\* returned absent, and no callback has come since.
C3_Witness ==
    \E i, j \in 1..Len(results) :
        /\ i < j
        /\ results[i].state = results[j].state
        /\ results[i].code /= None
        /\ results[j].code = None
        /\ spent[results[i].state]

\* C4: at-most-once handoff: the consume_code calls of a state never return
\* more codes than callbacks have stored for it, whatever the interleaving
\* of two consumers.
C4_AtMostOnce ==
    \A s \in States : HandedOut(results, s) <= stored[s]


\* C4 reached: two consumers were handed the code of one callback.
C4_DoubleHandoff ==
    \E s \in States : stored[s] = 1 /\ HandedOut(results, s) = 2

\* C14: a rejected callback never writes to the code store: with an error
\* parameter present, whatever code and state are, the answer is a failure;
\* with code or state missing or empty it is the invalid-request page; in
\* both cases with status 400 and the store as it was.
C14_RejectedNeverWrites ==
    lastCb /= NoCb =>
        /\ lastCb.q.error /= None =>
              /\ lastCb.status = 400
              /\ lastCb.after = lastCb.before
        /\ (lastCb.q.error = None
            /\ (~Truthy(lastCb.q.code) \/ ~Truthy(lastCb.q.state))) =>
              /\ lastCb.status = 400
              /\ lastCb.heading = "Invalid Request"
              /\ lastCb.after = lastCb.before

\* The part of C14 the code keeps: the same with "a non-empty error
\* parameter" for "an error parameter present", an empty one counting as
\* none.
C14_NonEmptyError ==
    lastCb /= NoCb =>
        /\ Truthy(lastCb.q.error) =>
              /\ lastCb.status = 400
              /\ lastCb.heading = "Authentication Failed"
              /\ lastCb.after = lastCb.before
        /\ (~Truthy(lastCb.q.error)
            /\ (~Truthy(lastCb.q.code) \/ ~Truthy(lastCb.q.state))) =>
              /\ lastCb.status = 400
              /\ lastCb.heading = "Invalid Request"
              /\ lastCb.after = lastCb.before

\* A step writes state s when it leaves there a code that was not there.
Writes(s) == auth_codes'[s] /= auth_codes[s] /\ auth_codes'[s] /= None

\* C15: an accepted callback (no error, a code and a state) answers success
\* and stores the code under its state, over any earlier code, every other
\* state's entry staying as it was; and only handle_callback ever adds or
\* changes an entry: a step that writes a state is an accepted callback for
\* that state with that code.
C15_OnlyWritePath ==
    /\ [](lastCb /= NoCb =>
            ((~Truthy(lastCb.q.error) /\ Truthy(lastCb.q.code)
              /\ Truthy(lastCb.q.state)) =>
                /\ lastCb.status = 200
                /\ lastCb.heading = "Authentication Successful!"
                /\ lastCb.after[lastCb.q.state] = lastCb.q.code
                /\ \A s \in States \ {lastCb.q.state} :
                       lastCb.after[s] = lastCb.before[s]))
    /\ [][\A s \in States :
             Writes(s) => /\ lastCb'.before = auth_codes
                          /\ lastCb'.after = auth_codes'
                          /\ lastCb'.status = 200
                          /\ lastCb'.q.state = s
                          /\ lastCb'.q.code = auth_codes'[s]]_vars

\* C15 witness: an accepted callback has replaced the earlier code of its
\* state.
C15_Witness ==
    /\ lastCb.status = 200
    /\ lastCb.q.state = "s1"
    /\ lastCb.before["s1"] = "c1"
    /\ lastCb.after["s1"] = "c2"
    /\ auth_codes = lastCb.after

-----------------------------------------------------------------------------
(***************************************************************************)
(* Claims about sessions and the entry of a run.                           *)
(***************************************************************************)

\* The rows the registrations so far leave behind.
RowsAfterLastRegistration ==
    IF lastReg = NoReg THEN {}
    ELSE IF \E resp \in lastReg.response : resp.status = 200
        THEN lastReg.before \cup lastReg.request
        ELSE lastReg.before

\* No session of the application has this id and this user.
NoSessionFor(sid, uid) ==
    ~ \E r \in sessions : r.id = sid /\ r.user_id = uid /\ r.app_name = AppName

\* C1: call_agent_async for a (session_id, user_id) with no session fails
\* with SessionNotFound before the engine is run: no engine run, no engine
\* event, no text yielded, no agent_response frame, and no session is
\* created by the call (the rows are those the registrations left).
C1_SessionNotFound ==
    /\ sessions = RowsAfterLastRegistration
    /\ (/\ pc \notin {"idle", "check"}
        /\ ValidationError(req) = None
        /\ NoSessionFor(req.session_id, req.user_id))
       => /\ exc = [type |-> "SessionNotFoundError", arg |-> req.session_id]
          /\ runs = <<>>
          /\ produced = <<>>
          /\ yielded = <<>>
          /\ \A i \in 1..Len(frames) : frames[i].type /= "agent_response"

\* C1 witness: a run for an unregistered session has ended in
\* SessionNotFound while another session is registered.
C1_Witness ==
    /\ pc = "done"
    /\ outcome = "raised"
    /\ exc.type = "SessionNotFoundError"
    /\ sessions /= {}
    /\ NoSessionFor(req.session_id, req.user_id)

-----------------------------------------------------------------------------
(***************************************************************************)
(* Claims about the wait.                                                  *)
(***************************************************************************)

\* ceil(t / p) for p > 0
CeilDiv(t, p) == (t + p - 1) \div p

\* ceil(timeout / poll_interval) of the numbers as written.
PollsDue == CeilDiv(timeout.n * poll_interval.d, timeout.d * poll_interval.n)

\* polls * poll_interval - timeout, over the common denominator.
Overshoot ==
    polls * poll_interval.n * timeout.d - timeout.n * poll_interval.d

\* The double that k sleeps leave in elapsed.
RECURSIVE ElapsedAfter(_)
ElapsedAfter(k) ==
    IF k = 0 THEN {}
    ELSE FloatAdd(ElapsedAfter(k - 1), poll_interval.val)

\* C6: a wait that ends in the timeout error names its state.  It has
\* polled ceil(timeout / poll_interval) times when the rounded sum of that
\* many intervals reaches the timeout, and once more when rounding leaves
\* that sum below the timeout; the intervals slept add up to at least the
\* timeout and at most the timeout and one interval; poll 0.1 and timeout
\* 0.2 give exactly 2 polls.
C6_TimeoutOvershootRounded ==
    (waitResult.kind = "TimeoutError" /\ poll_interval.n > 0) =>
        /\ waitResult.state = auth_config.state
        /\ polls = IF FloatLess(ElapsedAfter(PollsDue), timeout.val)
                      THEN PollsDue + 1
                      ELSE PollsDue
        /\ elapsed = ElapsedAfter(polls)
        /\ ~FloatLess(elapsed, timeout.val)
        /\ Overshoot >= 0
        /\ Overshoot <= poll_interval.n * timeout.d
        /\ (poll_interval = Lit(1, 10) /\ timeout = Lit(2, 10)) => polls = 2

\* C6 witness: no code ever arrived, poll 0.1 and timeout 0.2, and the
\* wait timed out after exactly 2 polls.
C6_Witness ==
    /\ waitResult.kind = "TimeoutError"
    /\ TotalStored = 0
    /\ poll_interval = Lit(1, 10)
    /\ timeout = Lit(2, 10)
    /\ polls = 2

\* C6 as stated: ceil(timeout / poll_interval) polls, and a wait of at
\* least the timeout and less than the timeout and one interval.
C6_TimeoutOvershoot ==
    (waitResult.kind = "TimeoutError" /\ poll_interval.n > 0) =>
        /\ waitResult.state = auth_config.state
        /\ polls = PollsDue
        /\ Overshoot >= 0
        /\ Overshoot < poll_interval.n * timeout.d

-----------------------------------------------------------------------------
(***************************************************************************)
(* Claims about the conversation.                                          *)
(***************************************************************************)

\* The texts of the events of a sequence, in order.
RECURSIVE ParsedTexts(_)
ParsedTexts(events) ==
    IF events = <<>> THEN <<>>
    ELSE <<default_event_parser(Head(events))>> \o ParsedTexts(Tail(events))

WellFormedAuth(e) ==
    is_auth_event(e) /\ InterceptError(e) = None
    /\ AskError(get_auth_request_function_call(e).args.authConfig) = None

IsTextEvent(e) == ~is_auth_event(e) /\ ~default_event_filter(e)

\* The engine's stream so far is one auth event followed by text events.
AuthThenTexts ==
    /\ Len(produced) >= 1
    /\ WellFormedAuth(produced[1])
    /\ \A i \in 2..Len(produced) : IsTextEvent(produced[i])

\* C2: when the engine's events are one auth-required event followed by
\* text events, call_agent_async has yielded the AUTH_REQUIRED text first
\* and then the text of each later event, once each and in the engine's
\* order; the later events come only after the handshake has resolved.
C2_AuthThenTextsInOrder ==
    AuthThenTexts =>
        /\ yielded =
              <<AuthRequiredText(get_auth_request_function_call(produced[1]).args.authConfig)>>
              \o ParsedTexts(Tail(produced))
        /\ Len(produced) >= 2 => waitResult.kind = "returned"

\* C2 witness: a conversation of an auth event and two text events is over.
C2_Witness ==
    /\ AuthThenTexts
    /\ Len(produced) = 3
    /\ pc = "done"
    /\ outcome = "ended"
    /\ Len(yielded) = 3

\* The auth event being intercepted: the last one the engine produced.
LastAuthCall ==
    LET idx == {i \in 1..Len(produced) : is_auth_event(produced[i])}
    IN  get_auth_request_function_call(produced[CHOOSE i \in idx : \A j \in idx : j <= i])

\* C5: intercept_auth_event on a well-formed auth event yields at most two
\* events: first, before any poll, the text event AUTH_REQUIRED:
\* <authorization_uri>&redirect_uri=<redirect_uri>; second, only once the
\* wait has returned, a single function response named
\* adk_request_credential with the id of the original call and the updated
\* negotiation as payload; and when it has finished it has yielded both.
C5_TwoEventsInOrder ==
    /\ Len(intercepted) <= 2
    /\ Len(intercepted) >= 1 =>
          LET first == intercepted[1]
              cfg == LastAuthCall.args.authConfig
          IN  /\ first.polls = 0
              /\ first.wait = None
              /\ first.event.parts =
                    <<TextPart("AUTH_REQUIRED: " \o cfg.auth_uri
                               \o "&redirect_uri=" \o RedirectUri)>>
    /\ Len(intercepted) = 2 =>
          LET second == intercepted[2]
              cfg == LastAuthCall.args.authConfig
          IN  /\ second.wait = "returned"
              /\ Len(second.event.parts) = 1
              /\ second.event.parts[1].text = None
              /\ second.event.parts[1].fr.name = "adk_request_credential"
              /\ second.event.parts[1].fr.id = LastAuthCall.id
              /\ second.event.parts[1].fr.response = auth_config
              /\ \E c \in Codes :
                    auth_config =
                        [cfg EXCEPT !.auth_response_uri =
                                        RedirectUri \o "?code=" \o c \o "&state=" \o cfg.state,
                                    !.redirect_uri = RedirectUri]
    /\ (waitResult.kind = "returned" /\ pc /= "waited") => Len(intercepted) = 2

\* C5 witness: an interception has yielded both events and the
\* conversation has gone on to its end.
C5_Witness ==
    /\ Len(intercepted) = 2
    /\ intercepted[2].event.parts[1].fr.id = "fc2"
    /\ pc = "done"

\* How many frames of a type a stream holds.
RECURSIVE CountType(_, _)
CountType(fs, type) ==
    IF fs = <<>> THEN 0
    ELSE (IF Head(fs).type = type THEN 1 ELSE 0) + CountType(Tail(fs), type)

\* C7: the stream ends with exactly one completion frame, its last frame,
\* whether the chat use case finished or raised; before its end it holds
\* none.
C7_CompletionLast ==
    /\ pc \in {"close", "done"} =>
          /\ frames /= <<>>
          /\ frames[Len(frames)].type = "completion"
          /\ CountType(frames, "completion") = 1
    /\ pc \notin {"close", "done"} => CountType(frames, "completion") = 0

\* C7 witness: a stream whose use case raised after a response has ended.
C7_Witness ==
    /\ pc = "done"
    /\ outcome = "raised"
    /\ exc.type = "TimeoutError"
    /\ Len(frames) = 2

\* C8: when the chat use case raises after yielding responses, the consumer
\* gets the agent_response frames, then an error frame with the exception's
\* message, then the completion frame, and the iteration ends without the
\* exception.
C8_ErrorFrameBeforeCompletion ==
    (pc = "done" /\ exc /= NoExc /\ yielded /= <<>>) =>
        /\ frames = ResponseFrames(yielded, req)
                    \o <<ErrorFrame(exc, req), CompletionFrame(req)>>
        /\ outcome = "ended"

\* C9: in a successful run of N responses the stream is N agent_response
\* frames, one per response and in order, then one completion frame.
C9_FramesOfSuccessfulRun ==
    (pc = "done" /\ exc = NoExc) =>
        /\ outcome = "ended"
        /\ Len(frames) = Len(yielded) + 1
        /\ \A i \in 1..Len(yielded) :
              /\ frames[i].type = "agent_response"
              /\ frames[i].content = yielded[i]
        /\ frames[Len(frames)].type = "completion"

\* C9 witness: a successful run of three responses.
C9_Witness ==
    /\ pc = "done"
    /\ outcome = "ended"
    /\ Len(yielded) = 3
    /\ Len(frames) = 4

\* An event has at least one part with text.
HasText(e) == e.has_parts /\ \E i \in 1..Len(e.parts) : e.parts[i].text /= None

\* The texts of the parts that have one, in order.
RECURSIVE PartTexts(_)
PartTexts(parts) ==
    IF parts = <<>> THEN <<>>
    ELSE (IF Head(parts).text /= None THEN <<Head(parts).text>> ELSE <<>>)
         \o PartTexts(Tail(parts))

\* The strings of a non-empty sequence, separated by single spaces.
RECURSIVE SpaceSeparated(_)
SpaceSeparated(ts) ==
    IF Len(ts) = 1 THEN ts[1] ELSE ts[1] \o " " \o SpaceSeparated(Tail(ts))

\* One string for each event that has text, in the events' order.
RECURSIVE TextsOfEvents(_)
TextsOfEvents(events) ==
    IF events = <<>> THEN <<>>
    ELSE (IF HasText(Head(events))
             THEN <<SpaceSeparated(PartTexts(Head(events).parts))>>
             ELSE <<>>)
         \o TextsOfEvents(Tail(events))

\* C16: in the run loop an event's text is yielded if and only if the
\* filter answers false for it; with the default policies the events
\* yielded are those with at least one part with text, and the string
\* yielded is the event's text parts, in order, separated by single spaces.
C16_YieldedIffNotFiltered ==
    (\A i \in 1..Len(produced) : ~is_auth_event(produced[i])) =>
        /\ yielded = TextsOfEvents(produced)
        /\ \A i \in 1..Len(produced) :
              FilterError(produced[i]) = None =>
                  /\ default_event_filter(produced[i]) <=> ~HasText(produced[i])
                  /\ Texts(produced[i]) /= <<>> <=> ~default_event_filter(produced[i])

\* C16 witness: a run of an event with two texts around a call, an event
\* without text and an event with one text has ended.
C16_Witness ==
    /\ produced = <<TextCallTextEvent, ToolEvent, TextEvent("t1")>>
    /\ yielded = <<"a b", "t1">>
    /\ pc = "done"
    /\ outcome = "ended"

\* The wait has raised its TimeoutError and the error has left the run loop.
TimedOut == waitResult.kind = "TimeoutError" /\ pc \in {"finally", "close", "done"}

\* A step of wait_for_user_authentication (a step of the store's other
\* users leaves pc alone).
WaitStep == pc \in {"poll", "delete", "sleep"} /\ pc' /= pc

\* C18: a timeout of the authorization wait fails the run with the timeout
\* error after the AUTH_REQUIRED text; no resumption message is produced,
\* no further engine run is started, and no step of a wait that does not
\* return a code changes the code store or the credential store.
C18_TimeoutFatal ==
    /\ [](TimedOut =>
            /\ exc = [type |-> "TimeoutError", arg |-> waitResult.state]
            /\ Len(intercepted) = 1
            /\ intercepted[1].event = ask_user_for_authentication(auth_config)
            /\ yielded /= <<>>
            /\ yielded[Len(yielded)] = AuthRequiredText(auth_config)
            /\ is_auth_event(produced[Len(produced)])
            /\ new_message = runs[Len(runs)]
            /\ pc = "done" => outcome = "raised")
    /\ [][/\ waitResult.kind = "TimeoutError" =>
               /\ runs' = runs
               /\ produced' = produced
               /\ yielded' = yielded
               /\ new_message' = new_message
               /\ intercepted' = intercepted
          /\ (WaitStep /\ waitResult'.kind /= "returned") =>
               /\ auth_codes' = auth_codes
               /\ durable' = durable]_vars

\* C18 witness: a run that asked for authorization has ended with the
\* wait's timeout after polling a store that holds a code of another state.
C18_Witness ==
    /\ TimedOut
    /\ pc = "done"
    /\ polls > 0
    /\ Len(runs) = 1
    /\ \E s \in States : auth_codes[s] /= None

\* The negotiation a resumption event carries.
Carried(c) == tasks[c].response[1].parts[1].fr

\* C17: of two conversations in a handshake at the same time, each polls
\* the code store for the state of its own negotiation, and its resumption
\* event carries its own call id with its own negotiation: its own state
\* and authorization URI and a code stored under its own state.
C17_IndependentHandshakes ==
    \A c \in Convs :
        /\ tasks[c].pc \in {"poll", "delete"} => tasks[c].state = OwnState(c)
        /\ tasks[c].response /= <<>> =>
              /\ Carried(c).id = OwnId(c)
              /\ Carried(c).response.state = OwnState(c)
              /\ Carried(c).response.auth_uri = OwnUri(c)
              /\ \E code \in Codes :
                    Carried(c).response.auth_response_uri =
                        AuthResponseUri(code, OwnState(c))

\* What holds of concurrent handshakes: the call id fed back and the
\* AUTH_REQUIRED text are the conversation's own.
C17_OwnCallId ==
    \A c \in Convs :
        /\ tasks[c].response /= <<>> => Carried(c).id = OwnId(c)
        /\ tasks[c].asked /= None =>
              tasks[c].asked = AuthRequiredText(Negotiation(OwnUri(c), OwnState(c)))

\* An identifier without the reserved separators.
SeparatorFree(id) ==
    \A i \in 1..Len(id) : id[i] \notin {UuidSeparator, SessionUserSeparator}

CleanInput(t) ==
    /\ SeparatorFree(t.session_id)
    /\ SeparatorFree(t.session_user_id)
    /\ SeparatorFree(t.gmail_user_id)

\* C11: for identifiers without the reserved separators, decoding the
\* persistent key gives back exactly the session id and the user id.
C11_KeyRoundTrip ==
    (kout.pc = "decoded" /\ CleanInput(kin)) =>
        /\ kout.error = None
        /\ kout.value = <<kin.session_id, kin.session_user_id>>

\* What the decoding does with the key of identifiers without separators:
\* it raises ValueError.
C11_DecodeRaises ==
    (kout.pc = "decoded" /\ CleanInput(kin)) => kout.error = "ValueError"

KeyOf(t) ==
    get_persistent_credential_key(t.credential_key, t.session_id,
                                  t.session_user_id, t.gmail_user_id)

\* C12: two tuples (canonical key, session, user, account) of identifiers
\* without the reserved separators that differ in any component never have
\* the same persistent key.
C12_KeyUnique ==
    (kout.pc /= "start" /\ CleanInput(kin)) =>
        \A t \in KeyInputs : (CleanInput(t) /\ t /= kin) => KeyOf(t) /= kout.key

\* What holds of the key: tuples that differ in the session, the user or
\* the account have different keys.
C12_UniquePerSessionUserAccount ==
    (kout.pc /= "start" /\ CleanInput(kin)) =>
        \A t \in KeyInputs :
            (/\ CleanInput(t)
             /\ <<t.session_id, t.session_user_id, t.gmail_user_id>>
                  /= <<kin.session_id, kin.session_user_id, kin.gmail_user_id>>)
                => KeyOf(t) /= kout.key

SameContent(a, b) ==
    /\ a.scheme.json = b.scheme.json
    /\ a.credential.json = b.credential.json

\* C13: the canonical key is deterministic and content-based: computations
\* over equal serialized content give the same key, computations over
\* content that differs in the scheme or the credential give different keys.
C13_ContentBasedKey ==
    \A i, j \in KeyCalls :
        (calls[i].done /\ calls[j].done) =>
            (SameContent(calls[i], calls[j]) <=> calls[i].key = calls[j].key)

\* What holds of the canonical key: within one process, equal content has
\* the same key.
C13_SameProcessSameKey ==
    \A i, j \in KeyCalls :
        (/\ calls[i].done /\ calls[j].done
         /\ calls[i].proc = calls[j].proc
         /\ SameContent(calls[i], calls[j])) => calls[i].key = calls[j].key

\* Determinism alone: equal content has the same key, whichever processes
\* compute it.
C13_SameContentSameKey ==
    \A i, j \in KeyCalls :
        (calls[i].done /\ calls[j].done /\ SameContent(calls[i], calls[j]))
            => calls[i].key = calls[j].key

\* The step is a call of the hook of the given kind; the call's arguments
\* are in the log after it.
HookCall(kind) == hookLog'.tick /= hookLog.tick /\ hookLog'.kind = kind

\* The persistent key for a session, its user and an account.
KeyFor(s, account) == s.id \o <<":">> \o s.user_id \o <<":">> \o account

\* C19: the after hook of a call that carries an account, with a credential
\* in the state under the canonical key, writes that credential to the
\* durable store under the persistent key for the session, its user and
\* that account; without an account or without a credential it leaves the
\* durable store unchanged; in every case it returns the tool response as
\* it received it.  (Without a configured store there is nothing to write.)
C19_AfterHookPersists ==
    [][HookCall("after") =>
        LET s == hookLog'.session
            g == hookLog'.userId
            c == tstate[s].cred
        IN  /\ hookLog'.returned = hookLog'.response
            /\ hookLog'.error = None
            /\ tstate' = tstate
            /\ last_user' = last_user
            /\ IF g /= NoAccount /\ c \in Credentials /\ redis_on
                  THEN /\ durable'[KeyFor(s, g)] /= None
                       /\ Loads(durable'[KeyFor(s, g)]) = c
                       /\ \A k \in DurableKeys \ {KeyFor(s, g)} :
                              durable'[k] = durable[k]
                  ELSE durable' = durable]_vars

\* C19 witness: the after hook of a call with an account has run and the
\* session's credential is in the durable store under the key for that
\* account, and not under the key for the other one.
C19_Witness ==
    /\ hookLog.kind = "after"
    /\ hookLog.userId /= NoAccount
    /\ hookLog.returned = "r2"
    /\ tstate[hookLog.session].cred \in Credentials
    /\ durable[KeyFor(hookLog.session, hookLog.userId)]
          = Dumps(tstate[hookLog.session].cred)
    /\ \A g \in Accounts \ {hookLog.userId} :
          durable[KeyFor(hookLog.session, g)] = None

\* C20: the load step of the before hook of a call that carries an account.
\* When the state holds no credential under the canonical key and the
\* durable store has an entry under the persistent key for the account, the
\* entry is installed in the state; when the state holds a credential it is
\* kept; the durable store is as the step found it.  (The state and the
\* store the load step finds are those the stale-credential step leaves.)
C20_LoadStep ==
    [][HookCall("before") =>
        LET s == hookLog'.session
            g == hookLog'.userId
            found == DeleteStale(s, g)
        IN  IF g = NoAccount
               THEN UNCHANGED <<durable, tstate, last_user>>
               ELSE found.error = None =>
                      /\ (IsNone(found.cred) /\ redis_on
                            /\ found.durable[KeyFor(s, g)] /= None) =>
                              /\ tstate'[s].cred \in Credentials
                              /\ Dumps(tstate'[s].cred) = found.durable[KeyFor(s, g)]
                      /\ (IsNone(found.cred)
                            /\ (~redis_on \/ found.durable[KeyFor(s, g)] = None)) =>
                              tstate'[s].cred = found.cred
                      /\ ~IsNone(found.cred) => tstate'[s].cred = found.cred
                      /\ durable' = found.durable
                      /\ tstate'[s].temp = tstate[s].temp
                      /\ \A o \in HookSessions \ {s} : tstate'[o] = tstate[o]]_vars

\* C20 witness: a before hook has run for an account and the state holds
\* the credential of the durable entry for that account, different from the
\* credential under the temporary key.
C20_Witness ==
    /\ hookLog.kind = "before"
    /\ hookLog.error = None
    /\ hookLog.userId /= NoAccount
    /\ last_user = hookLog.userId
    /\ redis_on
    /\ tstate[hookLog.session].temp /= None
    /\ tstate[hookLog.session].cred \in Credentials
    /\ tstate[hookLog.session].cred /= tstate[hookLog.session].temp
    /\ durable[KeyFor(hookLog.session, hookLog.userId)]
          = Dumps(tstate[hookLog.session].cred)

\* C21: when the account of a before-hook call differs from the one the
\* instance remembers from its previous call, the credential under the
\* canonical key is removed from the session's state (the entry holds no
\* credential until the load step installs the new account's), the durable
\* entry under the previous account's persistent key is deleted, the other
\* durable entries are untouched, and the instance remembers the new
\* account.
C21_PurgeOnAccountChange ==
    [][(/\ HookCall("before")
        /\ last_user /= NoAccount
        /\ hookLog'.userId /= NoAccount
        /\ hookLog'.userId /= last_user) =>
        LET s == hookLog'.session
            g == hookLog'.userId
            next == durable[KeyFor(s, g)]
        IN  /\ hookLog'.error = None
            /\ last_user' = g
            /\ IF redis_on
                  THEN /\ durable'[KeyFor(s, last_user)] = None
                       /\ \A k \in DurableKeys \ {KeyFor(s, last_user)} :
                              durable'[k] = durable[k]
                  ELSE durable' = durable
            /\ IF redis_on /\ next /= None
                  THEN Dumps(tstate'[s].cred) = next
                  ELSE tstate'[s].cred = IF tstate[s].cred = Absent THEN Absent ELSE None
            /\ tstate'[s].temp = tstate[s].temp
            /\ \A o \in HookSessions \ {s} : tstate'[o] = tstate[o]]_vars

\* C21 witness: a before hook has run for an account in a session that
\* never had a temporary credential; the session's entry under the
\* canonical key is None, the durable entry of the other account of the
\* session is gone and an entry of the other session is in place.
C21_Witness ==
    /\ hookLog.kind = "before"
    /\ hookLog.userId /= NoAccount
    /\ last_user = hookLog.userId
    /\ redis_on
    /\ tstate[hookLog.session].cred = None
    /\ tstate[hookLog.session].temp = None
    /\ \A g \in Accounts : durable[KeyFor(hookLog.session, g)] = None
    /\ \E o \in HookSessions \ {hookLog.session} :
          \A g \in Accounts : durable[KeyFor(o, g)] /= None

\* An event with content parts of which one carries a function call named
\* adk_request_credential whose id is among the long-running tool ids.
CarriesCredentialRequest(e) ==
    /\ e.has_parts
    /\ e.parts /= <<>>
    /\ \E i \in 1..Len(e.parts) :
          /\ e.parts[i].fc.name = "adk_request_credential"
          /\ e.parts[i].fc.id \in e.lr

\* C22: is_auth_event is true of exactly the events with content parts of
\* which one carries a function call named adk_request_credential with its
\* id among the event's long-running tool ids; the run loop takes the auth
\* branch for these events and for no other.
C22_AuthEventDetection ==
    /\ [](\A e \in DetectEvents : is_auth_event(e) <=> CarriesCredentialRequest(e))
    /\ [][Len(produced') > Len(produced) =>
            (credentials_needed' <=>
                CarriesCredentialRequest(produced'[Len(produced')]))]_vars

\* C22 witness: the engine produced a credential request whose id is not a
\* long-running tool's, which was passed over, and then one whose id is,
\* on which the handshake began.
C22_Witness ==
    /\ Len(produced) = 2
    /\ produced[1] = OtherIdEvent
    /\ produced[2] = TextThenAuthEvent
    /\ credentials_needed
    /\ function_call_id = "fc2"
    /\ pc = "wait"

\* The content of a resumption event: one function response named
\* adk_request_credential.
IsResumptionContent(parts) ==
    /\ Len(parts) = 1
    /\ parts[1].text = None
    /\ parts[1].fr.name = "adk_request_credential"

\* C23: the resumption event of the interceptor is not yielded to the
\* caller (nothing is yielded and no frame is sent when it arrives); its
\* content becomes the next message, and every engine run after the first
\* is given such a content in place of the user's message.
C23_ResumptionFedBack ==
    /\ [](/\ Len(runs) >= 1 => runs[1] = <<TextPart(req.new_message)>>
          /\ \A i \in 2..Len(runs) :
                /\ IsResumptionContent(runs[i])
                /\ runs[i] /= runs[1])
    /\ [][(/\ Len(intercepted') > Len(intercepted)
           /\ IsResumptionContent(intercepted'[Len(intercepted')].event.parts)) =>
             /\ yielded' = yielded
             /\ frames' = frames
             /\ new_message' = intercepted'[Len(intercepted')].event.parts]_vars

\* C23 witness: a conversation with one handshake has ended after a second
\* run, which was given the resumption content; the caller got the
\* AUTH_REQUIRED text and the text of the second run.
C23_Witness ==
    /\ pc = "done"
    /\ outcome = "ended"
    /\ Len(runs) = 2
    /\ IsResumptionContent(runs[2])
    /\ runs[2][1].fr.id = "fc1"
    /\ Len(yielded) = 2
    /\ yielded[2] = "t1"

\* The auth events among the first n events the engine produced.
AuthIndices(n) == {i \in 1..n : CarriesCredentialRequest(produced[i])}

\* The credential request an auth event carries.
CredentialRequestOf(e) ==
    LET p == CHOOSE q \in 1..Len(e.parts) :
                 /\ e.parts[q].fc.name = "adk_request_credential"
                 /\ e.parts[q].fc.id \in e.lr
                 /\ \A r \in 1..(q - 1) :
                       ~(/\ e.parts[r].fc.name = "adk_request_credential"
                         /\ e.parts[r].fc.id \in e.lr)
    IN  e.parts[p].fc

\* The credential request of the k-th auth event.
AuthCallOf(k) ==
    CredentialRequestOf(
        produced[CHOOSE j \in AuthIndices(Len(produced)) :
                     Cardinality(AuthIndices(j)) = k])

\* C24: an auth event is the last event taken from its engine run: every
\* event is produced in the run numbered one more than the auth events
\* before it; of the auth event nothing is yielded but the AUTH_REQUIRED
\* text of its negotiation; and each run after the first is started with
\* the resumption content for the auth event that ended the run before.
C24_RunAbandonedAndRestarted ==
    /\ [](\A k \in 2..Len(runs) :
             /\ IsResumptionContent(runs[k])
             /\ runs[k][1].fr.id = AuthCallOf(k - 1).id
             /\ runs[k][1].fr.response.state = AuthCallOf(k - 1).args.authConfig.state)
    /\ [][Len(produced') > Len(produced) =>
             /\ pc = "run"
             /\ Len(runs) = 1 + Cardinality(AuthIndices(Len(produced)))
             /\ CarriesCredentialRequest(produced'[Len(produced')]) =>
                   /\ pc' /= "run"
                   /\ \/ yielded' = yielded
                      \/ yielded' = Append(yielded,
                            "AUTH_REQUIRED: "
                            \o CredentialRequestOf(produced'[Len(produced')])
                                   .args.authConfig.auth_uri
                            \o "&redirect_uri=" \o RedirectUri)]_vars

\* C24 witness: the engine's first run gave a text and a credential
\* request in one event, and its second run a text; the caller got the
\* AUTH_REQUIRED text and the second run's text, not the first run's.
C24_Witness ==
    /\ produced = <<TextThenAuthEvent, TextEvent("t2")>>
    /\ Len(runs) = 2
    /\ yielded = <<"AUTH_REQUIRED: http://auth?x=1&redirect_uri=http://cb", "t2">>
    /\ pc = "done"

\* C25: call_agent_async runs the engine again after every run that met an
\* auth event and returns after the first run that met none: it leaves the
\* loop exactly when the runs so far are one more than the auth events, so
\* on return the runs number the auth events plus one; and a handshake
\* (one intercept_auth_event) begins in exactly the steps that take an auth
\* event from the engine, once for each.
C25_RepeatUntilNoAuthEvent ==
    /\ []((pc \in {"finally", "close", "done"} /\ exc = NoExc) =>
             Len(runs) = Cardinality(AuthIndices(Len(produced))) + 1)
    /\ [][(pc = "loop" /\ pc' /= "loop") =>
             /\ pc' \in {"run", "finally"}
             /\ pc' = "finally" <=>
                   Len(runs) = Cardinality(AuthIndices(Len(produced))) + 1
             /\ pc' = "run" =>
                   /\ Len(runs') = Len(runs) + 1
                   /\ Len(runs) = Cardinality(AuthIndices(Len(produced)))]_vars
    /\ [][IF /\ Len(produced') > Len(produced)
             /\ CarriesCredentialRequest(produced'[Len(produced')])
             THEN /\ Len(intercepted') <= 1
                  /\ polls' = 0
                  /\ pc' \in {"wait", "finally"}
                  /\ pc' = "wait" =>
                        /\ Len(intercepted') = 1
                        /\ function_call_id' = CredentialRequestOf(produced'[Len(produced')]).id
             ELSE \/ intercepted' = intercepted
                  \/ /\ Len(intercepted') = Len(intercepted) + 1
                     /\ SubSeq(intercepted', 1, Len(intercepted)) = intercepted
                     /\ Len(intercepted) = 1
                     /\ pc = "waited"]_vars

\* C25 witness: two auth events were met, each in its own run, and the
\* third run met none: the call returned after three runs.
C25_Witness ==
    /\ pc = "done"
    /\ outcome = "ended"
    /\ produced = <<AuthEvent("fc1", "s1"), TextThenAuthEvent, TextEvent("t2")>>
    /\ Len(runs) = 3
    /\ Len(intercepted) = 2

\* The negotiation has no state (None, or the empty string, which the code
\* takes for none).
StateAbsent == auth_config.state \in {None, ""}

\* C26: wait_for_user_authentication on a negotiation without a state
\* raises ValueError at once: the step that enters it ends it, with no
\* poll (consume_code is not called) and with the negotiation and the code
\* store as they were; and a wait that ended so never polled.
C26_AbsentStateFailsWithoutPolling ==
    /\ [](waitResult.kind = "ValueError" =>
             /\ StateAbsent
             /\ pc /= "poll" /\ pc /= "delete" /\ pc /= "sleep"
             /\ polls = 0
             /\ auth_config.auth_response_uri = None)
    /\ [][(pc = "wait" /\ StateAbsent /\ pc' /= "wait") =>
             /\ pc' = "waited"
             /\ waitResult' = [kind |-> "ValueError", state |-> auth_config.state]
             /\ polls' = polls
             /\ polled' = polled
             /\ auth_config' = auth_config
             /\ storeVars' = storeVars]_vars

\* C26 witness: the wait was entered on a negotiation whose state is None
\* while a code was in the store, and it has raised ValueError.
C26_Witness ==
    /\ auth_config.state = None
    /\ waitResult.kind = "ValueError"
    /\ pc = "waited"
    /\ polls = 0
    /\ \E s \in States : Truthy(auth_codes[s])

\* The wait returns in this step with code: the negotiation gets the two
\* fields, the code's entry is gone, and nothing is slept or polled.
ReturnsWith(code) ==
    /\ pc' = "waited"
    /\ waitResult'.kind = "returned"
    /\ auth_config' =
          [auth_config EXCEPT
              !.auth_response_uri =
                  "http://cb?code=" \o code \o "&state=" \o auth_config.state,
              !.redirect_uri = "http://cb"]
    /\ auth_codes'[auth_config.state] = None
    /\ \A s \in States \ {auth_config.state} : auth_codes'[s] = auth_codes[s]
    /\ elapsed' = elapsed

\* C27: a poll that finds a code under the negotiation's state ends the
\* wait: with the in-memory store in the same step, with the Redis store
\* after the DELETE that follows the GET, with no poll or sleep between.
\* The wait returns the negotiation with auth_response_uri built from that
\* code and the negotiation's state and with the handler's redirect_uri;
\* the entry is gone from the store; the negotiation is changed in that
\* step only, and no poll before it had found a code.
C27_FirstCodeEndsTheWait ==
    /\ [](/\ pc \in {"poll", "sleep", "delete"} =>
                /\ waitResult = NoResult
                /\ auth_config.auth_response_uri = None
                /\ auth_config.redirect_uri = None
          /\ waitResult.kind = "returned" => pc = "waited" /\ polled = None)
    /\ [][(polls' = polls + 1 /\ auth_codes[auth_config.state] /= None) =>
             IF variant = "memory"
                THEN ReturnsWith(auth_codes[auth_config.state])
                ELSE /\ pc' = "delete"
                     /\ polled' = auth_codes[auth_config.state]
                     /\ auth_config' = auth_config
                     /\ auth_codes' = auth_codes]_vars
    /\ [][pc = "delete" =>
             /\ polls' = polls
             /\ elapsed' = elapsed
             /\ pc' = "delete" => polled' = polled /\ auth_config' = auth_config
             /\ pc' /= "delete" => polls' = polls /\ ReturnsWith(polled)]_vars
    /\ [][auth_config' /= auth_config =>
             waitResult = NoResult /\ waitResult'.kind = "returned"]_vars

\* C27 witness: with the Redis store, the wait's first poll found nothing,
\* its second found c1 under s1, and the wait has returned.
C27_Witness ==
    /\ variant = "redis"
    /\ polls = 2
    /\ waitResult = [kind |-> "returned", state |-> "s1"]
    /\ auth_config.auth_response_uri = "http://cb?code=c1&state=s1"
    /\ auth_config.redirect_uri = "http://cb"
    /\ auth_codes["s1"] = None
    /\ pc = "waited"

\* The engine produces an auth event in this step.
TakesAuthEvent ==
    /\ Len(produced') > Len(produced)
    /\ CarriesCredentialRequest(produced'[Len(produced')])

\* The authConfig argument of the auth event produced in this step.
TakenAuthConfig == CredentialRequestOf(produced'[Len(produced')]).args.authConfig

\* C28: on an auth event whose authConfig argument is missing or is no
\* mapping, intercept_auth_event raises ValueError in the step that takes
\* the event: it yields no event (nothing reaches the caller, no
\* resumption), the handler's negotiation stays what it was, and the code
\* store is neither polled nor changed, then or later in the call.
C28_MalformedRequestFailsEarly ==
    /\ []((pc \in {"finally", "close", "done"}
           /\ exc.arg \in {"ValueError: no auth config",
                           "ValueError: authConfig is not a dict"}) =>
             /\ exc.type = "ValueError"
             /\ intercepted = <<>>
             /\ polls = 0)
    /\ [][(TakesAuthEvent /\ TakenAuthConfig.kind /= "dict") =>
             /\ pc' = "finally"
             /\ exc'.type = "ValueError"
             /\ exc'.arg = IF TakenAuthConfig.kind = "missing"
                              THEN "ValueError: no auth config"
                              ELSE "ValueError: authConfig is not a dict"
             /\ intercepted' = <<>>
             /\ yielded' = yielded
             /\ frames' = frames
             /\ new_message' = new_message
             /\ auth_config' = auth_config
             /\ polls' = 0
             /\ storeVars' = storeVars]_vars

\* C28 witness: after a handshake that succeeded, the second run sent a
\* credential request whose authConfig is no mapping; the call failed and
\* the handler still holds the first handshake's negotiation.
C28_Witness ==
    /\ produced = <<AuthEvent("fc1", "s1"), NotAMappingEvent>>
    /\ exc = [type |-> "ValueError", arg |-> "ValueError: authConfig is not a dict"]
    /\ auth_config.state = "s1"
    /\ auth_config.auth_response_uri = "http://cb?code=c1&state=s1"
    /\ outcome = "raised"

\* C29: when the negotiation of the auth event (a mapping) has no
\* authorization URI or no state, intercept_auth_event raises ValueError in
\* the step that takes the event, after loading the negotiation: no
\* AUTH_REQUIRED text and no other text is yielded, no resumption event is
\* made (the next message stays), and the code store is neither polled nor
\* changed, then or later in the call.
C29_MissingFieldFailsBeforeAsking ==
    /\ []((pc \in {"finally", "close", "done"}
           /\ exc.arg \in {"ValueError: Auth URI not found",
                           "ValueError: State not found"}) =>
             /\ exc.type = "ValueError"
             /\ intercepted = <<>>
             /\ polls = 0
             /\ auth_config.auth_uri \in {None, ""} \/ auth_config.state \in {None, ""})
    /\ [][(/\ TakesAuthEvent
           /\ TakenAuthConfig.kind = "dict"
           /\ CredentialRequestOf(produced'[Len(produced')]).id \notin {None, ""}
           /\ \/ TakenAuthConfig.auth_uri \in {None, ""}
              \/ TakenAuthConfig.state \in {None, ""}) =>
             /\ pc' = "finally"
             /\ exc'.type = "ValueError"
             /\ exc'.arg = IF TakenAuthConfig.auth_uri \in {None, ""}
                              THEN "ValueError: Auth URI not found"
                              ELSE "ValueError: State not found"
             /\ intercepted' = <<>>
             /\ yielded' = yielded
             /\ frames' = frames
             /\ new_message' = new_message
             /\ auth_config' = TakenAuthConfig
             /\ polls' = 0
             /\ storeVars' = storeVars]_vars

\* C29 witness: after a handshake that succeeded, the second run sent a
\* credential request whose negotiation has no state; the call failed, and
\* the caller has the first handshake's AUTH_REQUIRED text only.
C29_Witness ==
    /\ produced = <<AuthEvent("fc1", "s1"), NoStateEvent>>
    /\ exc = [type |-> "ValueError", arg |-> "ValueError: State not found"]
    /\ yielded = <<"AUTH_REQUIRED: http://auth?x=1&redirect_uri=http://cb">>
    /\ Len(runs) = 2
    /\ auth_config.state = None
    /\ outcome = "raised"

\* C30: a get_code call returns what the store holds under the state, None
\* when it holds nothing, and changes neither the store nor a consume_code
\* under way; and what a consume_code returns is what the store held under
\* its state when it read it.  So get_code calls before a consume_code do
\* not change what it returns.
C30_GetCodeReadsOnly ==
    /\ [][reads' /= reads =>
             /\ Len(reads') = Len(reads) + 1
             /\ SubSeq(reads', 1, Len(reads)) = reads
             /\ reads'[Len(reads')].code = auth_codes[reads'[Len(reads')].state]
             /\ auth_codes' = auth_codes
             /\ storeVars' = storeVars
             /\ cl' = cl
             /\ results' = results]_vars
    /\ [][\A c \in Clients :
             /\ (cl[c].pc = "idle" /\ cl'[c].pc = "got") =>
                   cl'[c].code = auth_codes[cl'[c].st]
             /\ (Len(results') > Len(results) /\ results'[Len(results')].client = c) =>
                   results'[Len(results')].code =
                       IF cl[c].pc = "got" THEN cl[c].code
                       ELSE auth_codes[results'[Len(results')].state]]_vars

\* C30 witness: one code was stored under s1, get_code read it twice, and
\* the consume_code after them returned it; a get_code of s2, which was
\* never stored, would answer None.
C30_Witness ==
    /\ stored = [s \in States |-> IF s = "s1" THEN 1 ELSE 0]
    /\ reads = <<[state |-> "s1", code |-> "c1"], [state |-> "s1", code |-> "c1"]>>
    /\ Len(results) = 1
    /\ results[1].state = "s1"
    /\ results[1].code = "c1"
    /\ auth_codes = EmptyStore

\* C30, the unknown state: with the Redis store, get_code of a state
\* nothing was stored under answered None.
C30_UnknownStateWitness ==
    /\ variant = "redis"
    /\ stored["s2"] = 0
    /\ Len(reads) = 1
    /\ reads[1] = [state |-> "s2", code |-> None]

\* C31: a before hook called without an account in the call's arguments
\* returns at once: the state of every session, the durable store and the
\* account the instance remembers are as they were, and nothing is raised.
C31_NoAccountSkips ==
    [][(HookCall("before") /\ hookLog'.userId = NoAccount) =>
          /\ tstate' = tstate
          /\ durable' = durable
          /\ last_user' = last_user
          /\ redis_on' = redis_on
          /\ hookLog'.error = None]_vars

\* C31 witness: a before hook was called without an account while the
\* instance remembered an account, the session held a credential and a
\* temporary credential that differs, and the durable store held an entry
\* for the session and the remembered account; all are still there.
C31_Witness ==
    /\ hookLog.kind = "before"
    /\ hookLog.userId = NoAccount
    /\ last_user /= NoAccount
    /\ tstate[hookLog.session].cred \in Credentials
    /\ tstate[hookLog.session].temp \in Credentials
    /\ tstate[hookLog.session].temp /= tstate[hookLog.session].cred
    /\ durable[KeyFor(hookLog.session, last_user)] /= None

\* The entry under the canonical key the load step leaves when it finds no
\* credential there: the durable entry of the call's account, if any.
LoadedOver(entry, s, g) ==
    IF redis_on /\ durable[KeyFor(s, g)] /= None
       THEN Loads(durable[KeyFor(s, g)])
       ELSE entry

\* The call of this step is a before hook for the account the instance
\* remembers from the call before.
SameAccountCall ==
    /\ HookCall("before")
    /\ hookLog'.userId /= NoAccount
    /\ hookLog'.userId = last_user

\* C32: in a before hook for the same account as the call before, with a
\* credential under the canonical key: when a temporary credential exists
\* whose access token differs, the entry is cleared (it is None when the
\* load step takes over: the hook leaves None, or the durable entry of the
\* account); when the tokens are equal or there is no temporary
\* credential, the credential stays.  The durable store is not touched.
C32_StalenessSafeguard ==
    [][(SameAccountCall /\ tstate[hookLog'.session].cred \in Credentials) =>
        LET s == hookLog'.session
            g == hookLog'.userId
            st == tstate[s]
        IN  /\ hookLog'.error = None
            /\ durable' = durable
            /\ last_user' = last_user
            /\ tstate'[s].temp = st.temp
            /\ \A o \in HookSessions \ {s} : tstate'[o] = tstate[o]
            /\ IF st.temp \in Credentials /\ st.temp /= st.cred
                  THEN tstate'[s].cred = LoadedOver(None, s, g)
                  ELSE tstate'[s].cred = st.cred]_vars

\* C32 witness: a before hook for the remembered account has returned,
\* and the session, which has a temporary credential and no durable entry
\* for the account, holds None under the canonical key.
C32_Witness ==
    /\ hookLog.kind = "before"
    /\ hookLog.error = None
    /\ hookLog.userId /= NoAccount
    /\ hookLog.userId = last_user
    /\ redis_on
    /\ tstate[hookLog.session].temp \in Credentials
    /\ tstate[hookLog.session].cred = None
    /\ durable[KeyFor(hookLog.session, hookLog.userId)] = None
    /\ \E g \in Accounts : durable[KeyFor(hookLog.session, g)] /= None

\* C33: the wait ends, by returning or by raising, whatever the timeout
\* and the poll interval and whether or not a redirect arrives.
C33_WaitTerminates == <>(pc = "waited")

\* C33, for the poll intervals above 0 and for the timeout 0: the wait
\* ends.
C33_PositiveIntervalTerminates ==
    (poll_interval.val /= {} \/ timeout.val = {}) => <>(pc = "waited")

\* The wait raises TimeoutError in this step.
RaisesTimeout == waitResult.kind = None /\ waitResult'.kind = "TimeoutError"

\* C34 as stated: whenever the timeout error is raised, the store holds no
\* code under the negotiation's state.
C34_NoTimeoutOverAWaitingCode ==
    [][RaisesTimeout => auth_codes[auth_config.state] = None]_vars

\* C34, amended: a wait never times out after a poll of its own found a
\* code: a poll that reads the store while a code is under the state ends
\* the wait by a return.  The timeout error is raised at the loop test,
\* without a poll: the store and the negotiation are not touched by that
\* step, so a code stored after the last poll stays in the store.
C34_NoTimeoutAfterACodeWasFound ==
    /\ [](waitResult.kind = "TimeoutError" =>
             /\ pc = "waited"
             /\ polled = None
             /\ auth_config.auth_response_uri = None)
    /\ [][(polls' = polls + 1 /\ auth_codes[auth_config.state] /= None) =>
             /\ pc' \in {"delete", "waited"}
             /\ waitResult'.kind /= "TimeoutError"]_vars
    /\ [][pc = "delete" => waitResult'.kind /= "TimeoutError"]_vars
    /\ [][RaisesTimeout =>
             /\ pc = "poll"
             /\ polls' = polls
             /\ elapsed' = elapsed
             /\ storeVars' = storeVars
             /\ auth_config' = auth_config]_vars

\* C34 witness: with the in-memory store, the first two polls found
\* nothing, a code was stored under s1 between polls, and the third poll
\* ended the wait by a return.
C34_Witness ==
    /\ variant = "memory"
    /\ polls = 3
    /\ waitResult = [kind |-> "returned", state |-> "s1"]
    /\ auth_config.auth_response_uri = "http://cb?code=c2&state=s1"
    /\ stored["s1"] = 1
    /\ auth_codes["s1"] = None

\* The credential obtained for an account.
ObtainedFor(account) == IF account = <<"m", "e">> THEN "tokA" ELSE "tokB"

\* A session's state holds, under the canonical key, a credential obtained
\* for another account than the given one.
HoldsForeignCredential(s, account) ==
    /\ ~IsNone(tstate[s].cred)
    /\ tstate[s].cred /= ObtainedFor(account)

\* C35: when a before-hook instance that has seen no call is called for an
\* account while the session's state holds a credential obtained for
\* another account, the state it leaves to the tool call no longer holds
\* that credential (so the call does not run with it and the after hook
\* cannot persist it under the call's key).
C35_FirstCallDropsForeignCredential ==
    [][(/\ HookCall("before")
        /\ last_user = NoAccount
        /\ hookLog'.userId /= NoAccount
        /\ HoldsForeignCredential(hookLog'.session, hookLog'.userId))
       => tstate'[hookLog'.session].cred /= tstate[hookLog'.session].cred]_vars

\* C36: a call of the before hook never fails: whatever state the hooks and
\* the engine have left, the hook returns without raising.
C36_BeforeHookNeverFails ==
    [][HookCall("before") => hookLog'.error = None]_vars

\* The before hook cleared the canonical entry of the call's session under
\* the staleness safeguard: same account as the call before, a credential
\* under the canonical key and a temporary credential that differs from it.
SafeguardClears ==
    /\ HookCall("before")
    /\ hookLog'.error = None
    /\ hookLog'.userId /= NoAccount
    /\ hookLog'.userId = last_user
    /\ ~IsNone(tstate[hookLog'.session].cred)
    /\ ~IsNone(tstate[hookLog'.session].temp)
    /\ tstate[hookLog'.session].temp /= tstate[hookLog'.session].cred

\* C37: when the before hook clears the canonical entry under the staleness
\* safeguard, the entry it leaves at its return is absent or None, or holds
\* the temporary credential's access token: the load step does not bring
\* the stale credential back.
C37_SafeguardEffectiveAtReturn ==
    [][SafeguardClears =>
          \/ IsNone(tstate'[hookLog'.session].cred)
          \/ tstate'[hookLog'.session].cred = tstate'[hookLog'.session].temp]_vars

\* The before hook is called for a session with the account of that
\* session's own previous tool call.
OwnAccountAgain ==
    /\ HookCall("before")
    /\ hookLog'.userId /= NoAccount
    /\ <<hookLog'.session, hookLog'.userId>> \in prevAccount

\* C38: a before-hook call for a session with the account of the session's
\* own previous call leaves the credential under the session's canonical
\* key in place and deletes no durable entry, whatever the calls of the
\* other session in between.
C38_NoCrossSessionInterference ==
    [][OwnAccountAgain =>
          /\ (~IsNone(tstate[hookLog'.session].cred) =>
                  tstate'[hookLog'.session].cred = tstate[hookLog'.session].cred)
          /\ \A k \in DurableKeys : durable[k] /= None => durable'[k] /= None]_vars

\* C39: a step of the wait (the consume_code of its poll, with the Redis
\* store its GET and its DELETE, and its return) leaves the codes stored
\* under every other state than the negotiation's as they are; what a GET
\* keeps for the DELETE is the code under the negotiation's own state; and
\* the code the wait returns with is the one that was stored under that
\* state.
C39_StateIsolation ==
    [][pc' /= pc =>
          /\ \A o \in States \ {auth_config.state} : auth_codes'[o] = auth_codes[o]
          /\ polled' /= polled =>
                 polled' \in {None, auth_codes[auth_config.state]}
          /\ (waitResult'.kind = "returned" /\ waitResult.kind /= "returned") =>
                 auth_config'.auth_response_uri =
                     "http://cb?code="
                        \o (IF pc = "delete" THEN polled
                                             ELSE auth_codes[auth_config.state])
                        \o "&state=" \o auth_config.state]_vars

\* C39 witness: the wait on s1 has returned with c1 while c2, delivered for
\* s2, is still in the store.
C39_Witness ==
    /\ waitResult = [kind |-> "returned", state |-> "s1"]
    /\ auth_config.auth_response_uri = "http://cb?code=c1&state=s1"
    /\ auth_codes["s2"] = "c2"
    /\ auth_codes["s1"] = None
=============================================================================
